---- MODULE Spec2Model ----
(***************************************************************************)
(* Verification model of the GEO244 error-analysis notebooks:              *)
(*   10_error_analysis/insar_correlated_noise_covariance.ipynb             *)
(*       (plane removal, Fourier autocorrelation, distance grid, cut)      *)
(*       (masking and crop, radial profile and fits)                       *)
(*   10_error_analysis/make_inverse_covariance_matrix.ipynb                *)
(*       (pairwise distances, covariance matrix, pseudoinverse)            *)
(*   unnamed/part_001 (perturbed data set writer)                          *)
(*   unnamed/part_002 (restart loop of the fault inversion)                *)
(*                                                                         *)
(* One action per notebook code cell.  Arithmetic on data values is exact  *)
(* rational arithmetic: a grid of rationals is a grid of integer           *)
(* numerators with one common denominator.  A floating-point NaN is the    *)
(* tagged value NaN below and propagates through arithmetic as in IEEE.    *)
(* Rounding is modelled only where it decides an outcome: LAPACK's         *)
(* exact-zero-pivot test inside np.linalg.inv (see LinalgInv), and whether *)
(* a residual that is 0 in exact arithmetic is stored as 0.0 or as a few   *)
(* ulps, which np.count_nonzero tells apart (see CountNonzeroOutcomes).    *)
(* The covariance notebook uses fixed-point values (see FxOne).            *)
(* Distances are kept as their squares (the radicand of np.sqrt), which    *)
(* are exact integers; comparisons of distances are comparisons of the     *)
(* squares.                                                                *)
(***************************************************************************)
EXTENDS Integers, Sequences, FiniteSets, TLC

(* ------------------------------ bounds -------------------------------- *)
MaxRows == 2
MaxCols == 3
MaxMissing == 2
MaxShapeRows == 3
MaxShapeCols == 4
MaxPts == 3
MaxProfRows == 4
MaxProfCols == 4
MaxSamples == 3
MaxFlagged == 3
MaxWriterPts == 2
MaxRuns == 3
MaxEpochs == 4
MaxCorrections == 2
OkadaN == 2
MaxRequests == 2
FxOne == 2

(* ------------------------- program constants -------------------------- *)
pixsize == 30

VARIABLES
    pc,             \* which cell of the notebook ran last
    nrows, ncols,   \* np.shape(cropifg)
    cropifg,        \* the cropped, masked interferogram: cell -> value
    planeparams,    \* fitted plane [num |-> <<n0,n1,n2>>, den |-> d], or NoParams
    flatcropifg,    \* detrended field: cell -> numerator (or NaN)
    flatden,        \* common denominator of flatcropifg
    normcount,      \* np.count_nonzero(flatcropifgzeros)
    autocorr_grid,  \* shifted, normalised autocorrelation: cell -> numerator (or NaN)
    acden,          \* common denominator of autocorr_grid
    xcent, ycent,   \* centre used for the distance grid
    radial_dist,    \* cell -> squared distance
    rdlen,          \* the cut index
    rd, acg,        \* the flattened, cut vectors
    data,           \* rows of the point file: <<x km, y km>>
    x, y,           \* scattered point coordinates (metres)
    maxvar, alpha, beta, \* covariance model parameters (fixed point)
    rgrid,          \* pairwise squared distances
    E,              \* covariance matrix (fixed point)
    Einv,           \* pseudoinverse [num |-> matrix, den |-> d], or NoMatrix
    \* the raster loader (cells 556b5acb, 44119cd0)
    ifg, cor, msk,  \* interferogram, correlation and water-mask rasters
    use_water_mask, cor_thresh,
    ymin, ymax, xmin, xmax,   \* crop bounds
    \* the profile and the fits (cell 6dad24a8)
    maxacg,         \* np.max(acg)
    maxdist,        \* the truncation distance (metres)
    rdtrunc, acgtrunc,        \* the samples closer than maxdist
    rdbin,          \* bin number of each truncated sample
    cvdav,          \* the profile: rows [dist |-> metres, mean |-> value]
    exp_solution, expcos_solution,   \* what minimize returned
    fit_a, fit_b, fit_c,      \* the code's a, b, c, as last assigned
    exp_graph, expcos_graph,  \* the fitted curves sampled at rd
    \* the perturbed data set writer (cell f9a7b336)
    N,              \* number of perturbed data sets
    pha,            \* the value column of data
    vcm,            \* covariance matrix of the points (fixed point)
    V,              \* its Cholesky factor: V[i][j] = num / sqrt(rad)
    X,              \* correlated noise: X[k][i] for row k, data set i
    pha_pets,       \* perturbed values
    written,        \* the files written so far, each a sequence of rows
    \* the restart loop of the inversion notebook
    run_i,          \* the code's loop counter i
    results,        \* what minimize returned in each run so far
    bestfun, bestparams, printed,
    fpstart, fpsigma,         \* start values and sigmas of the 9 fault parameters (sixteenths)
    fplowb, fphighb,          \* the 2-sigma bounds
    fparams_restart,          \* the random starting model
    \* the GNSS offset correction
    gnss_data,      \* the epochs: [Date |-> day, East, North, Vertical |-> mm]
    off_date,       \* the date of the offset being corrected
    e_shift, n_shift, v_shift,   \* the offset corrections, one entry per epoch
    applied,        \* the dates corrected since the shift arrays were created
    \* the Okada forward model
    strike,         \* the fault's strike, in hundredths of a degree
    rotR,           \* the rotation matrix R, numerators over TrigScale
    okada_k,        \* the number of grid points the loop has done
    u_at,           \* grid point -> the displacement dc3dwrapper returned there
    UX, UY, UZ,     \* grid point -> displacement (UX, UY over TrigScale)
    \* the authenticated download
    url,            \* the address of the file, a sequence of path parts
    file_name,      \* Path(url).name
    response,       \* r: [status_code, reason, body], or NoResponse
    files,          \* the working directory: file name -> bytes
    stdout,         \* the lines the cell has printed
    requests_made   \* how many times the cell has run

vars == <<pc, nrows, ncols, cropifg, planeparams, flatcropifg, flatden,
          normcount, autocorr_grid, acden, xcent, ycent, radial_dist, rdlen,
          rd, acg, data, x, y, maxvar, alpha, beta, rgrid, E, Einv,
          ifg, cor, msk, use_water_mask, cor_thresh, ymin, ymax, xmin, xmax,
          maxacg, maxdist, rdtrunc, acgtrunc, rdbin, cvdav, exp_solution,
          expcos_solution, fit_a, fit_b, fit_c, exp_graph, expcos_graph,
          N, pha, vcm, V, X, pha_pets, written, run_i, results, bestfun,
          bestparams, printed, fpstart, fpsigma, fplowb, fphighb,
          fparams_restart, gnss_data, off_date, e_shift, n_shift, v_shift,
          applied, strike, rotR, okada_k, u_at, UX, UY, UZ, url, file_name,
          response, files, stdout, requests_made>>

gridVars == <<nrows, ncols, cropifg, planeparams, flatcropifg, flatden,
              normcount, autocorr_grid, acden, xcent, ycent, radial_dist,
              rdlen, rd, acg>>

covVars == <<data, x, y, maxvar, alpha, beta, rgrid, E, Einv>>

loadVars == <<ifg, cor, msk, use_water_mask, cor_thresh, ymin, ymax, xmin, xmax>>

profVars == <<maxacg, maxdist, rdtrunc, acgtrunc, rdbin, cvdav, exp_solution,
              expcos_solution, fit_a, fit_b, fit_c, exp_graph, expcos_graph>>

writerVars == <<N, pha, vcm, V, X, pha_pets, written>>

restartVars == <<run_i, results, bestfun, bestparams, printed, fpstart, fpsigma,
                 fplowb, fphighb, fparams_restart>>

\* what the flatten, autocorrelation and covariance cells never touch
gnssVars == <<gnss_data, off_date, e_shift, n_shift, v_shift, applied>>

\* the variables of the other notebooks
okadaVars == <<strike, rotR, okada_k, u_at, UX, UY, UZ>>

\* the variables of the other notebooks
downloadVars == <<url, file_name, response, files, stdout, requests_made>>

otherVars == <<gnssVars, okadaVars, downloadVars>>

restVars == <<loadVars, profVars, writerVars, restartVars, otherVars>>

(* ------------------------- values and NaN ----------------------------- *)
NaN == [nan |-> TRUE, num |-> 0]

Num(n) == [nan |-> FALSE, num |-> n]

IsNaN(v) == v.nan

\* IEEE: any arithmetic with a NaN operand is NaN
\* a subtraction that reads a missing operand as 0
SubNanAsZero(a, b) ==
    Num((IF a.nan THEN 0 ELSE a.num) - (IF b.nan THEN 0 ELSE b.num))

Sub(a, b) == IF a.nan \/ b.nan THEN NaN ELSE Num(a.num - b.num)

Add(a, b) == IF a.nan \/ b.nan THEN NaN ELSE Num(a.num + b.num)

Scale(k, a) == IF a.nan THEN NaN ELSE Num(k * a.num)

Abs(n) == IF n < 0 THEN -n ELSE n

RECURSIVE Gcd(_, _)
Gcd(a, b) == IF b = 0 THEN Abs(a) ELSE Gcd(Abs(b), Abs(a) % Abs(b))

RECURSIVE IsPow2(_)
IsPow2(n) == n = 1 \/ (n > 1 /\ n % 2 = 0 /\ IsPow2(n \div 2))

RECURSIVE SumF(_, _)
SumF(f, S) ==
    IF S = {} THEN 0
    ELSE LET c == CHOOSE c \in S : TRUE IN f[c] + SumF(f, S \ {c})

NoParams == [num |-> <<>>, den |-> 0]

NoGrid == <<>>

NoMatrix == [num |-> <<>>, den |-> 0]

(* ------------------------------ grids --------------------------------- *)
\* a cell is <<row, column>>, zero based, as numpy indexes a 2-D array
Cells(R, C) == (0 .. R - 1) \X (0 .. C - 1)

\* np.meshgrid(np.arange(0,ncols,1), np.arange(0,nrows,1)): xx holds the
\* column number, yy the row number
MeshX(R, C) == [c \in Cells(R, C) |-> Num(c[2])]

MeshY(R, C) == [c \in Cells(R, C) |-> Num(c[1])]

\* g[np.isnan(f)] = np.nan
NanOut(g, f) == [c \in DOMAIN g |-> IF IsNaN(f[c]) THEN NaN ELSE g[c]]

\* the cells kept by v[~np.isnan(v)]
NotNaN(g) == {c \in DOMAIN g : ~IsNaN(g[c])}

(* --------------------------- plane removal ---------------------------- *)
\* one row of A = np.vstack((np.ones_like(xx1d), xx1d, yy1d)).T
\* the design row with the coordinate columns exchanged
DesignRowSwapped(xx, yy, c) == <<1, yy[c].num, xx[c].num>>

DesignRow(xx, yy, c) == <<1, xx[c].num, yy[c].num>>

\* ATA = np.matmul(A.T, A)
NormalMatrix(xx, yy) ==
    LET valid == NotNaN(xx)
    IN  [i \in 1 .. 3 |-> [j \in 1 .. 3 |->
            SumF([c \in valid |-> DesignRow(xx, yy, c)[i] * DesignRow(xx, yy, c)[j]], valid)]]

\* ATd = np.matmul(A.T, cropifg1d.T)
NormalRhs(xx, yy, f) ==
    LET valid == NotNaN(f)
    IN  [i \in 1 .. 3 |-> SumF([c \in valid |-> DesignRow(xx, yy, c)[i] * f[c].num], valid)]

Det3(M) ==
      M[1][1] * (M[2][2] * M[3][3] - M[2][3] * M[3][2])
    - M[1][2] * (M[2][1] * M[3][3] - M[2][3] * M[3][1])
    + M[1][3] * (M[2][1] * M[3][2] - M[2][2] * M[3][1])

\* adjugate: inverse(M) = Adj3(M) / Det3(M)
Adj3(M) ==
    LET Cof(i, j) ==
            LET r == (1 .. 3) \ {i}
                s == (1 .. 3) \ {j}
                r1 == CHOOSE a \in r : \A b \in r : a <= b
                r2 == CHOOSE a \in r : \A b \in r : a >= b
                s1 == CHOOSE a \in s : \A b \in s : a <= b
                s2 == CHOOSE a \in s : \A b \in s : a >= b
                minor == M[r1][s1] * M[r2][s2] - M[r1][s2] * M[r2][s1]
            IN  IF (i + j) % 2 = 0 THEN minor ELSE -minor
    IN  [i \in 1 .. 3 |-> [j \in 1 .. 3 |-> Cof(j, i)]]

MatVec3(M, v) == [i \in 1 .. 3 |-> M[i][1] * v[1] + M[i][2] * v[2] + M[i][3] * v[3]]

\* a / b is exactly representable in binary floating point (small operands)
Dyadic(a, b) == b # 0 /\ IsPow2(Abs(b) \div Gcd(a, b))

\* two non-zero rows, one an exact power-of-two multiple of the other
ScaledRows(r, s) ==
    /\ \E m \in 1 .. 3 :
          /\ r[m] # 0
          /\ s[m] # 0
          /\ IsPow2(Abs(s[m]) \div Gcd(s[m], r[m]))
          /\ IsPow2(Abs(r[m]) \div Gcd(s[m], r[m]))
    /\ \A i \in 1 .. 3, k \in 1 .. 3 : r[i] * s[k] = r[k] * s[i]

\* LU factorisation with partial pivoting (LAPACK getrf, under np.linalg.inv)
\* of a singular 3x3 matrix of small integers.  TRUE when a pivot is certain
\* to be computed as exactly 0.0, so that LinAlgError is raised whatever the
\* build: a computed quantity is exact when its multiplier is a dyadic
\* fraction (or its other factor is 0), and two rows in a power-of-two ratio
\* go through the same operations and cancel exactly.  Otherwise the last
\* pivot is rounding residue, zero or not depending on the build.
ExactZeroPivot(M) ==
    IF M[1][1] = 0 /\ M[2][1] = 0 /\ M[3][1] = 0 THEN TRUE
    ELSE
    LET p1 == CHOOSE i \in 1 .. 3 :
                  /\ \A k \in 1 .. 3 : Abs(M[i][1]) >= Abs(M[k][1])
                  /\ \A k \in 1 .. i - 1 : Abs(M[k][1]) < Abs(M[i][1])
        perm == [i \in 1 .. 3 |-> IF i = 1 THEN p1 ELSE IF i = p1 THEN 1 ELSE i]
        A == [i \in 1 .. 3 |-> M[perm[i]]]
        p == A[1][1]
        \* trailing block after the first elimination step, scaled by p
        U == [i \in 2 .. 3 |-> [j \in 2 .. 3 |-> p * A[i][j] - A[i][1] * A[1][j]]]
        ex == [i \in 2 .. 3 |-> [j \in 2 .. 3 |-> Dyadic(A[i][1], p) \/ A[1][j] = 0]]
        sz(i, j) == U[i][j] = 0 /\ ex[i][j]
        noise == U[2][2] = 0 /\ U[3][2] = 0
        \* <<pivot row, other row>> of the second step
        orders ==
            IF noise THEN {<<a, 5 - a>> : a \in {r \in 2 .. 3 : ~sz(r, 2)}}
            ELSE IF Abs(U[2][2]) > Abs(U[3][2]) THEN {<<2, 3>>}
            ELSE IF Abs(U[2][2]) < Abs(U[3][2]) THEN {<<3, 2>>}
            ELSE IF ex[2][2] /\ ex[3][2] THEN {<<2, 3>>}
            ELSE {<<2, 3>>, <<3, 2>>}
        lastZero(a, b) ==
            \/ sz(b, 3) /\ (sz(b, 2) \/ sz(a, 3))
            \/ /\ ~noise
               /\ ex[b][3] /\ ex[a][3] /\ ex[b][2] /\ ex[a][2]
               /\ Dyadic(U[b][2], U[a][2])
    IN  \/ sz(2, 2) /\ sz(3, 2)
        \/ ScaledRows(A[2], A[3])
        \/ \A o \in orders : lastZero(o[1], o[2])

\* what np.linalg.inv returns when a singular matrix goes undetected: the
\* inverse of rounding residue, arbitrary finite numbers (a sample of them)
GarbageInverse ==
    {<<<<1, -2, 1>>, <<-2, 4, -2>>, <<1, -2, 1>>>>,
     <<<<3, 0, -1>>, <<0, -2, 5>>, <<-1, 5, 2>>>>}

\* the outcomes of np.linalg.inv(ATA): the inverse, as a matrix of
\* numerators over one denominator, or LinAlgError (singular matrix)
LinalgInv(ATA) ==
    IF Det3(ATA) # 0
    THEN {[kind |-> "ok", mat |-> Adj3(ATA), den |-> Det3(ATA)]}
    ELSE {[kind |-> "LinAlgError", mat |-> <<>>, den |-> 0]}
         \cup (IF ExactZeroPivot(ATA) THEN {}
               ELSE {[kind |-> "ok", mat |-> g, den |-> 1] : g \in GarbageInverse})

\* the fraction num / den of a coefficient vector, in lowest terms, den > 0
Lowest(num, den) ==
    LET g == Gcd(Gcd(Gcd(num[1], num[2]), num[3]), den)
        s == IF den < 0 THEN -g ELSE g
    IN  [num |-> [i \in 1 .. 3 |-> num[i] \div s], den |-> den \div s]

\* planeparams = np.matmul(np.linalg.inv(ATA), ATd.T)
PlaneParams(inv, ATd) == Lowest(MatVec3(inv.mat, ATd), inv.den)

\* plane = planeparams[0] + xx*planeparams[1] + yy*planeparams[2], times den
PlaneNum(pp, xx, yy) ==
    [c \in DOMAIN xx |->
        Add(Add(Num(pp.num[1]), Scale(pp.num[2], xx[c])), Scale(pp.num[3], yy[c]))]

\* flatcropifg = cropifg - plane, times den
FlatCrop(f, pp, xx, yy) ==
    [c \in DOMAIN f |-> Sub(Scale(pp.den, f[c]), PlaneNum(pp, xx, yy)[c])]

\* cell e47a8a70: flatten the interferogram crop
Flatten ==
    /\ pc = "cropped"
    /\ LET xx == NanOut(MeshX(nrows, ncols), cropifg)
           yy == NanOut(MeshY(nrows, ncols), cropifg)
           ATA == NormalMatrix(xx, yy)
           ATd == NormalRhs(xx, yy, cropifg)
       IN  \E inv \in LinalgInv(ATA) :
              IF inv.kind = "LinAlgError"
              THEN /\ pc' = "LinAlgError"
                   /\ UNCHANGED <<planeparams, flatcropifg, flatden>>
              ELSE /\ pc' = "flattened"
                   /\ planeparams' = PlaneParams(inv, ATd)
                   /\ flatcropifg' = FlatCrop(cropifg, planeparams', xx, yy)
                   /\ flatden' = planeparams'.den
    /\ UNCHANGED <<nrows, ncols, cropifg, normcount, autocorr_grid, acden,
                   xcent, ycent, radial_dist, rdlen, rd, acg>>
    /\ UNCHANGED covVars
    /\ UNCHANGED restVars

(* --------------------- autocorrelation and distances ------------------ *)
\* flatcropifgzeros[np.isnan(flatcropifg)] = 0
ZeroFill(g) == [c \in DOMAIN g |-> IF IsNaN(g[c]) THEN Num(0) ELSE g[c]]

\* a correlation of the squared field with the field, which no power
\* spectrum gives
CircCorrSquared(f, R, C) ==
    [lag \in Cells(R, C) |->
        SumF([c \in Cells(R, C) |->
                 f[c].num * f[c].num * f[<<(c[1] + lag[1]) % R, (c[2] + lag[2]) % C>>].num],
             Cells(R, C))]

\* np.real(ifft2(np.real(F)**2 + np.imag(F)**2)) with F = fft2(f): by the
\* correlation theorem the circular autocorrelation of f, indexed by lag
CircAutocorr(f, R, C) ==
    [lag \in Cells(R, C) |->
        SumF([c \in Cells(R, C) |->
                 f[c].num * f[<<(c[1] + lag[1]) % R, (c[2] + lag[2]) % C>>].num],
             Cells(R, C))]

\* fftshift: along an axis of length n, out[i] = in[(i - n//2) mod n]
FftShift(g, R, C) ==
    [c \in Cells(R, C) |->
        g[<<(c[1] + R - (R \div 2)) % R, (c[2] + C - (C \div 2)) % C>>]]

\* np.count_nonzero: entries that are not 0 (a NaN is not 0)
CountNonzero(g) == Cardinality({c \in DOMAIN g : g[c].nan \/ g[c].num # 0})

\* The data are all 0.0: then A^T d, the coefficients and every residual are
\* computed as exactly 0.0 whatever the rounding.
AllZeroData(f) == \A c \in NotNaN(f) : f[c].num = 0

\* What np.count_nonzero can return for the detrended field g of the data f.
\* A residual that is not 0 in exact arithmetic is counted.  One that is 0
\* in exact arithmetic is stored as 0.0 or as a rounding residue, depending
\* on how the build rounds the inverse and the products, so it may or may
\* not be counted - except for all-zero data, where nothing is rounded.
CountNonzeroOutcomes(g, f) ==
    IF AllZeroData(f) THEN {CountNonzero(g)}
    ELSE CountNonzero(g) .. Cardinality(NotNaN(f))

\* grid / count, as numerators over (flatden^2 * count); 0/0 is NaN
Normalise(g, count) ==
    [c \in DOMAIN g |-> IF count = 0 THEN NaN ELSE Num(g[c])]

\* xcent = np.floor(ncols/2)+1, ycent = np.floor(nrows/2)+1
Centre(n) == (n \div 2) + 1

\* radial_dist = np.sqrt((xx-xcent)**2+(yy-ycent)**2)*pixsize, squared
RadialDistSq(R, C, xc, yc) ==
    [c \in Cells(R, C) |->
        ((c[2] - xc) * (c[2] - xc) + (c[1] - yc) * (c[1] - yc)) * pixsize * pixsize]

\* np.ravel: row-major; entry k (from 1) is cell <<(k-1) // C, (k-1) % C>>
Ravel(g, R, C) == [k \in 1 .. R * C |-> g[<<(k - 1) \div C, (k - 1) % C>>]]

\* rdlen = int(nrows + np.ceil(len(rd)/2))
\* the cut with the half length rounded down
CutLenFloor(R, len) == R + (len \div 2)

CutLen(R, len) == R + ((len + 1) \div 2)

\* v[0:n]: a slice stops at the end of the vector
Slice(v, n) == SubSeq(v, 1, IF n < Len(v) THEN n ELSE Len(v))

\* cell 98abe275: autocorrelation in the Fourier domain, distances, cut.
\* flatcropifgzeros = flatcropifg binds a second name to the same array, so
\* the zero fill is written into flatcropifg.
Autocorr ==
    /\ pc = "flattened"
    /\ pc' = "autocorr"
    /\ LET flatcropifgzeros == ZeroFill(flatcropifg)
           shifted == FftShift(CircAutocorr(flatcropifgzeros, nrows, ncols), nrows, ncols)
       IN  \E count \in CountNonzeroOutcomes(flatcropifgzeros, cropifg) :
               /\ flatcropifg' = flatcropifgzeros
               /\ normcount' = count
               /\ autocorr_grid' = Normalise(shifted, count)
               /\ acden' = flatden * flatden * count
    /\ xcent' = Centre(ncols)
    /\ ycent' = Centre(nrows)
    /\ radial_dist' = RadialDistSq(nrows, ncols, xcent', ycent')
    /\ rdlen' = CutLen(nrows, nrows * ncols)
    /\ rd' = Slice(Ravel(radial_dist', nrows, ncols), rdlen')
    /\ acg' = Slice(Ravel(autocorr_grid', nrows, ncols), rdlen')
    /\ UNCHANGED <<nrows, ncols, cropifg, planeparams, flatden>>
    /\ UNCHANGED covVars
    /\ UNCHANGED restVars

(* ---------------- covariance matrix and pseudoinverse ----------------- *)
\* Covariances are fixed-point numbers: the integer n stands for n / FxOne,
\* and an entry of E for n / (FxOne * FxOne).  np.exp and np.cos are
\* evaluated by short rational approximations at that resolution.

\* Heron's iteration, downwards from an estimate k >= sqrt(n)
RECURSIVE IsqrtFrom(_, _)
IsqrtFrom(n, k) ==
    LET next == (k + (n \div k)) \div 2
    IN  IF next >= k THEN k ELSE IsqrtFrom(n, next)

\* floor of the square root
Isqrt(n) == IF n = 0 THEN 0 ELSE IsqrtFrom(n, n)

\* np.exp(-t) for the fixed-point t
ExpNegFx(t) ==
    IF t >= 0 THEN (FxOne * FxOne) \div (FxOne + t + ((t * t) \div (2 * FxOne)))
    ELSE FxOne - t + ((t * t) \div (2 * FxOne))

\* np.cos(u) for the fixed-point u
CosFx(u) == FxOne - ((u * u) \div (2 * FxOne))

\* a rate (per km, fixed point) times a distance in metres
RateTimes(k, r) == IF k >= 0 THEN (k * r) \div 1000 ELSE -(((-k) * r) \div 1000)

\* xx1, xx2 = np.meshgrid(v, v): xx1[i][j] = v[j], xx2[i][j] = v[i]
Mesh1(v) == [i \in 1 .. Len(v) |-> [j \in 1 .. Len(v) |-> v[j]]]

Mesh2(v) == [i \in 1 .. Len(v) |-> [j \in 1 .. Len(v) |-> v[i]]]

\* the radicand with the coordinates added instead of subtracted
PairSqDistSum(xx1, xx2, yy1, yy2) ==
    [i \in DOMAIN xx1 |-> [j \in DOMAIN xx1 |->
        (xx1[i][j] + xx2[i][j]) * (xx1[i][j] + xx2[i][j])
        + (yy1[i][j] + yy2[i][j]) * (yy1[i][j] + yy2[i][j])]]

\* (xx1-xx2)**2+(yy1-yy2)**2, the radicand of rgrid
PairSqDist(xx1, xx2, yy1, yy2) ==
    [i \in DOMAIN xx1 |-> [j \in DOMAIN xx1 |->
        (xx1[i][j] - xx2[i][j]) * (xx1[i][j] - xx2[i][j])
        + (yy1[i][j] - yy2[i][j]) * (yy1[i][j] - yy2[i][j])]]

\* maxvar*np.exp(-alpha*r)*np.cos(beta*r) at r = sqrt(rsq)
ExpCos(mv, a, b, rsq) ==
    mv * ExpNegFx(RateTimes(a, Isqrt(rsq))) * CosFx(RateTimes(b, Isqrt(rsq)))

\* E = maxvar*np.exp(-alpha*rgrid)*np.cos(beta*rgrid), elementwise
CovMatrix(mv, a, b, rg) ==
    [i \in DOMAIN rg |-> [j \in DOMAIN rg |-> ExpCos(mv, a, b, rg[i][j])]]

RECURSIVE SumTo(_, _)
SumTo(f, n) == IF n = 0 THEN 0 ELSE f[n] + SumTo(f, n - 1)

MatMul(A, B) ==
    [i \in DOMAIN A |-> [j \in DOMAIN A |->
        SumTo([k \in DOMAIN A |-> A[i][k] * B[k][j]], Len(A))]]

MatTrace(A) == SumTo([k \in DOMAIN A |-> A[k][k]], Len(A))

\* A + c * I
MatShift(A, c) ==
    [i \in DOMAIN A |-> [j \in DOMAIN A |-> IF i = j THEN A[i][j] + c ELSE A[i][j]]]

MatScale(c, A) == [i \in DOMAIN A |-> [j \in DOMAIN A |-> c * A[i][j]]]

MatZero(n) == [i \in 1 .. n |-> [j \in 1 .. n |-> 0]]

\* Faddeev-LeVerrier: the matrices M_k = A^(k-1) + a_1 A^(k-2) + ... and the
\* coefficients a_k of the characteristic polynomial
\* lambda^n + a_1 lambda^(n-1) + ... + a_n
RECURSIVE Leverrier(_, _)
Leverrier(A, k) ==
    IF k = 1
    THEN [M |-> MatShift(MatZero(Len(A)), 1), a |-> -MatTrace(A)]
    ELSE LET prev == Leverrier(A, k - 1)
             Mk == MatShift(MatMul(A, prev.M), prev.a)
         IN  [M |-> Mk, a |-> (-MatTrace(MatMul(A, Mk))) \div k]

\* rank of a symmetric matrix: the last non-zero characteristic coefficient
SymRank(A) ==
    LET nz == {k \in 1 .. Len(A) : Leverrier(A, k).a # 0}
    IN  IF nz = {} THEN 0 ELSE CHOOSE k \in nz : \A m \in nz : m <= k

MatGcd(A, d) ==
    LET flat == [k \in 1 .. Len(A) * Len(A) |->
                    A[((k - 1) \div Len(A)) + 1][((k - 1) % Len(A)) + 1]]
        G[k \in 0 .. Len(A) * Len(A)] ==
            IF k = 0 THEN Abs(d) ELSE Gcd(G[k - 1], flat[k])
    IN  G[Len(A) * Len(A)]

\* the fraction num / den of a matrix, in lowest terms, den > 0
LowestMat(num, den) ==
    LET g == MatGcd(num, den)
        s == IF den < 0 THEN -g ELSE g
    IN  [num |-> [i \in DOMAIN num |-> [j \in DOMAIN num |-> num[i][j] \div s]],
         den |-> den \div s]

\* the plain inverse: nothing is returned for a singular matrix
InvOrNothing(A) ==
    LET fl == Leverrier(A, Len(A))
    IN  IF fl.a = 0 THEN NoMatrix ELSE LowestMat(MatScale(-1, fl.M), fl.a)

\* np.linalg.pinv(E) for the symmetric E: the Moore-Penrose pseudoinverse.
\* With r the rank, E restricted to its range satisfies
\* E^r + a_1 E^(r-1) + ... + a_r = 0, which gives pinv(E) = E M_r M_r / a_r^2
\* (and -M_n / a_n, the inverse, at full rank); the zero matrix for rank 0.
Pinv(A) ==
    LET r == SymRank(A)
    IN  IF r = 0 THEN [num |-> A, den |-> 1]
        ELSE LET fl == Leverrier(A, r)
             IN  IF r = Len(A) THEN LowestMat(MatScale(-1, fl.M), fl.a)
                 ELSE LowestMat(MatMul(A, MatMul(fl.M, fl.M)), fl.a * fl.a)

\* cell 62acdcc3: load the data and convert the coordinates to metres
LoadData ==
    /\ pc = "inputs"
    /\ pc' = "loaded"
    /\ x' = [k \in 1 .. Len(data) |-> data[k][1] * 1000]
    /\ y' = [k \in 1 .. Len(data) |-> data[k][2] * 1000]
    /\ UNCHANGED <<data, maxvar, alpha, beta, rgrid, E, Einv>>
    /\ UNCHANGED gridVars
    /\ UNCHANGED restVars

\* cell 203f1c45: evaluate the covariances, then invert them
BuildCov ==
    /\ pc = "loaded"
    /\ pc' = "inverted"
    /\ rgrid' = PairSqDist(Mesh1(x), Mesh2(x), Mesh1(y), Mesh2(y))
    /\ E' = CovMatrix(maxvar, alpha, beta, rgrid')
    /\ Einv' = Pinv(E')
    /\ UNCHANGED <<data, x, y, maxvar, alpha, beta>>
    /\ UNCHANGED gridVars
    /\ UNCHANGED restVars

(* ----------------------------- raster loader -------------------------- *)
\* cor_thresh = 0.25, in hundredths
CorThresh == 25

\* the test with <= in place of <
LowCorOrEqual(cv, th) == cv <= th

\* cor<cor_thresh
LowCor(cv, th) == cv < th

\* msk<1
Water(mv) == mv < 1

\* ifg[msk<1]=np.nan (if use_water_mask), then ifg[cor<cor_thresh]=np.nan
MaskOut(g, cr, mk, use, th) ==
    [cell \in DOMAIN g |->
        IF (use /\ Water(mk[cell])) \/ LowCor(cr[cell], th) THEN NaN ELSE g[cell]]

\* Python's a[lo:hi] on an axis of length n: the first index and the stop
\* index after negative bounds are counted from the end and both are clipped
SliceFrom(lo, n) == IF lo < 0 THEN (IF lo + n < 0 THEN 0 ELSE lo + n) ELSE (IF lo > n THEN n ELSE lo)

\* ifg[ymin:ymax,xmin:xmax]
Crop(g, R, C, y0, y1, x0, x1) ==
    LET r0 == SliceFrom(y0, R)
        r1 == SliceFrom(y1, R)
        c0 == SliceFrom(x0, C)
        c1 == SliceFrom(x1, C)
    IN  [cell \in Cells(IF r1 > r0 THEN r1 - r0 ELSE 0, IF c1 > c0 THEN c1 - c0 ELSE 0) |->
            g[<<cell[1] + r0, cell[2] + c0>>]]

\* number of rows / columns of a raster
RasterYSize(g) == Cardinality({cell[1] : cell \in DOMAIN g})

RasterXSize(g) == Cardinality({cell[2] : cell \in DOMAIN g})

\* cell 44119cd0: mask the interferogram in place, then crop it
MaskCrop ==
    /\ pc = "loaded"
    /\ pc' = "cropped"
    /\ ifg' = MaskOut(ifg, cor, msk, use_water_mask, cor_thresh)
    /\ nrows' = RasterYSize(cor)
    /\ ymax' = IF ymax = -1 THEN nrows' ELSE ymax
    /\ cropifg' = Crop(ifg', RasterYSize(ifg), RasterXSize(ifg), ymin, ymax', xmin, xmax)
    /\ UNCHANGED <<cor, msk, use_water_mask, cor_thresh, ymin, xmin, xmax>>
    /\ UNCHANGED <<ncols, planeparams, flatcropifg, flatden, normcount,
                   autocorr_grid, acden, xcent, ycent, radial_dist, rdlen, rd, acg>>
    /\ UNCHANGED covVars
    /\ UNCHANGED <<profVars, writerVars, restartVars, otherVars>>

(* ------------------- covariance profile and the fits ------------------ *)
\* A profile value is a rational num / den over the grid's denominator
\* acden, or NaN.
RNaN == [nan |-> TRUE, num |-> 0, den |-> 0]

Rat(n, d) == [nan |-> FALSE, num |-> n, den |-> d]

\* w = pixsize*2, the bin width
w == pixsize * 2

\* maxdist: the shorter of xcent*pixsize and ycent*pixsize
MaxDist(xc, yc) == IF xc < yc THEN xc * pixsize ELSE yc * pixsize

\* the mask with <= in place of <
KeptLe(rdv, md) == {k \in 1 .. Len(rdv) : rdv[k] <= md * md}

\* rd<maxdist: the positions of the samples that are kept
Kept(rdv, md) == {k \in 1 .. Len(rdv) : rdv[k] < md * md}

\* v[mask]: the entries at the positions K, in their order
RECURSIVE Pick(_, _, _)
Pick(v, K, k) ==
    IF k > Len(v) THEN <<>>
    ELSE (IF k \in K THEN <<v[k]>> ELSE <<>>) \o Pick(v, K, k + 1)

\* the bin number rounded down instead of up
BinOfFloor(rsq) ==
    CHOOSE n \in 0 .. (Isqrt(rsq) \div w) + 1 :
        /\ rsq >= (n * w) * (n * w)
        /\ rsq < ((n + 1) * w) * ((n + 1) * w)

\* np.int32(np.ceil(r/w)) for the squared distance rsq
BinOf(rsq) ==
    CHOOSE n \in 0 .. (Isqrt(rsq) \div w) + 1 :
        /\ rsq <= (n * w) * (n * w)
        /\ n > 0 => rsq > ((n - 1) * w) * ((n - 1) * w)

\* max(rdbin)
RECURSIVE MaxSeq(_)
MaxSeq(v) ==
    IF Len(v) = 1 THEN v[1]
    ELSE LET m == MaxSeq(Tail(v)) IN IF v[1] > m THEN v[1] ELSE m

\* np.max(acg): NaN as soon as one entry is NaN
MaxValue(v) ==
    IF \E k \in 1 .. Len(v) : IsNaN(v[k]) THEN RNaN
    ELSE Rat(MaxSeq([k \in 1 .. Len(v) |-> v[k].num]), 1)

\* the mean that leaves an empty selection at 0
MeanOrZero(v) ==
    IF \E k \in 1 .. Len(v) : IsNaN(v[k]) THEN RNaN
    ELSE IF Len(v) = 0 THEN Rat(0, 1)
    ELSE Rat(SumTo([k \in 1 .. Len(v) |-> v[k].num], Len(v)), Len(v))

\* np.mean: sum / count; NaN for an empty selection (0/0) or a NaN entry
Mean(v) ==
    IF Len(v) = 0 \/ \E k \in 1 .. Len(v) : IsNaN(v[k]) THEN RNaN
    ELSE Rat(SumTo([k \in 1 .. Len(v) |-> v[k].num], Len(v)), Len(v))

\* np.zeros((rows,2))
Zeros(rows) == [r \in 1 .. rows |-> [dist |-> 0, mean |-> Rat(0, 1)]]

\* the last bin with one row left out
MaxBinShort(bins) == MaxSeq(bins) - 2

\* maxbin = np.max(rdbin)-1
MaxBin(bins) == MaxSeq(bins) - 1

\* for b in np.arange(0,maxbin+1,1): row b gets the mean of bin b+1 and b*w
RECURSIVE AverageLoop(_, _, _, _, _)
AverageLoop(cv, bb, maxbin, bins, vals) ==
    IF bb > maxbin THEN cv
    ELSE AverageLoop(
            [cv EXCEPT ![bb + 1] =
                [dist |-> bb * w,
                 mean |-> Mean(Pick(vals, {k \in 1 .. Len(bins) : bins[k] = bb + 1}, 1))]],
            bb + 1, maxbin, bins, vals)

\* what scipy's minimize can return: any parameter vector, converged or not
FitRates == {0, 3}

ExpSolutions == {[x |-> <<r>>, success |-> s] : r \in FitRates, s \in BOOLEAN}

ExpCosSolutions == {[x |-> v, success |-> s] : v \in {<<0, 1>>, <<3, 0>>}, s \in BOOLEAN}

\* the parameter, read only from a converged result
SolutionXChecked(sol, k) == IF sol.success THEN sol.x[k] ELSE 0

\* exp_solution.x[0], expcos_solution.x[0], expcos_solution.x[1]
SolutionX(sol, k) == sol.x[k]

\* a*np.exp(-b*r) at r = sqrt(rsq)
ExpGraph(av, bv, rsq) ==
    IF av.nan THEN RNaN
    ELSE Rat(av.num * ExpNegFx(RateTimes(bv, Isqrt(rsq))), av.den * FxOne)

\* a*np.exp(-b*r)*np.cos(c*r) at r = sqrt(rsq)
ExpCosGraph(av, bv, cv, rsq) ==
    IF av.nan THEN RNaN
    ELSE Rat(av.num * ExpNegFx(RateTimes(bv, Isqrt(rsq))) * CosFx(RateTimes(cv, Isqrt(rsq))),
             av.den * FxOne * FxOne)

\* cell 6dad24a8: radial average of the autocorrelation, then the two fits
ProfileFit ==
    /\ pc = "autocorr"
    /\ maxacg' = MaxValue(acg)
    /\ maxdist' = MaxDist(xcent, ycent)
    /\ rdtrunc' = Pick(rd, Kept(rd, maxdist'), 1)
    /\ acgtrunc' = Pick(acg, Kept(rd, maxdist'), 1)
    /\ rdbin' = [k \in 1 .. Len(rdtrunc') |-> BinOf(rdtrunc'[k])]
    /\ IF rdbin' = <<>>
       THEN \* max() of an empty array
            /\ pc' = "ValueError"
            /\ UNCHANGED <<cvdav, exp_solution, expcos_solution, fit_a, fit_b,
                           fit_c, exp_graph, expcos_graph>>
       ELSE /\ cvdav' = AverageLoop(Zeros(MaxSeq(rdbin')), 0, MaxBin(rdbin'),
                                    rdbin', acgtrunc')
            /\ IF cvdav' = <<>>
               THEN \* cvdav[0,1] inside the penalty function
                    /\ pc' = "IndexError"
                    /\ UNCHANGED <<exp_solution, expcos_solution, fit_a, fit_b,
                                   fit_c, exp_graph, expcos_graph>>
               ELSE /\ pc' = "fitted"
                    /\ exp_solution' \in ExpSolutions
                    /\ expcos_solution' \in ExpCosSolutions
                    /\ fit_a' = cvdav'[1].mean
                    /\ fit_b' = SolutionX(expcos_solution', 1)
                    /\ fit_c' = SolutionX(expcos_solution', 2)
                    /\ exp_graph' = [k \in 1 .. Len(rd) |->
                           ExpGraph(fit_a', SolutionX(exp_solution', 1), rd[k])]
                    /\ expcos_graph' = [k \in 1 .. Len(rd) |->
                           ExpCosGraph(fit_a', fit_b', fit_c', rd[k])]
    /\ UNCHANGED gridVars
    /\ UNCHANGED covVars
    /\ UNCHANGED <<loadVars, writerVars, restartVars, otherVars>>

(* ------------------------ perturbed data writer ----------------------- *)
\* The values of the point file are integers in units of 1e-7 (one decimal
\* more than the '%f' format prints); a formatted value is an integer in
\* units of 1e-6.

\* data[:,0]*1000 for a non-negative coordinate in kilometres: whole metres
KmToM(v) == v \div 10000

\* '%f' cutting the seventh decimal off instead of rounding
FormatFTrunc(v, ups) ==
    IF v < 0 THEN -(Abs(v) \div 10) ELSE v \div 10

\* '%f' % v: six decimals, rounded to nearest.  A value whose seventh decimal
\* is 5 is not exactly a double: the side its double falls on decides, the
\* values in ups are those that go away from zero
FormatF(v, ups) ==
    LET q == Abs(v) \div 10
        d == Abs(v) % 10
        r == IF d > 5 \/ (d = 5 /\ v \in ups) THEN q + 1 ELSE q
    IN  IF v < 0 THEN -r ELSE r

\* '%d' % k for the whole number k of np.arange(0,n)
FormatD(k) == k

\* the leading k x k block of a matrix
Leading(A, k) == [i \in 1 .. k |-> [j \in 1 .. k |-> A[i][j]]]

\* its determinant, from the characteristic polynomial
LeadingMinor(A, k) ==
    LET ak == Leverrier(Leading(A, k), k).a
    IN  IF k % 2 = 0 THEN ak ELSE -ak

\* np.linalg.cholesky(vcm): succeeds on a positive definite matrix and raises
\* LinAlgError when a pivot is negative; when the first pivot that is not
\* positive is exactly zero, the rounding of the earlier steps decides
CholeskyOutcomes(A) ==
    LET bad == {k \in 1 .. Len(A) : LeadingMinor(A, k) <= 0}
    IN  IF bad = {} THEN {"ok"}
        ELSE LET first == CHOOSE k \in bad : \A m \in bad : k <= m
             IN  IF LeadingMinor(A, first) < 0 \/ first = 1 THEN {"LinAlgError"}
                 ELSE {"ok", "LinAlgError"}

\* determinant, from the characteristic polynomial
Det(A) ==
    LET an == Leverrier(A, Len(A)).a
    IN  IF Len(A) % 2 = 0 THEN an ELSE -an

\* rows 1 .. j-1 and i, columns 1 .. j
Bordered(A, i, j) ==
    [r \in 1 .. j |-> [c \in 1 .. j |-> A[IF r = j THEN i ELSE r][c]]]

\* np.linalg.cholesky(A): the lower-triangular L with L L' = A.  With M_j the
\* leading minors, L[i][j] = det(A[{1..j-1, i}, 1..j]) / sqrt(M_j * M_(j-1))
\* for i >= j and 0 above the diagonal; an entry is kept as num / sqrt(rad).
\* rad = 0 marks a pivot that is 0 in exact arithmetic: what is stored there
\* is a rounding residue.
Cholesky(A) ==
    [i \in 1 .. Len(A) |-> [j \in 1 .. Len(A) |->
        IF j > i THEN [num |-> 0, rad |-> 1]
        ELSE [num |-> Det(Bordered(A, i, j)),
              rad |-> LeadingMinor(A, j) * (IF j = 1 THEN 1 ELSE LeadingMinor(A, j - 1))]]]

\* the correlated noise X = (Z V)', in units of 1e-7: Z is drawn from
\* np.random.normal and V is not singular, so every entry can be any value
Noise == {-6, 5}

\* the values about to be written whose seventh decimal is 5
Ties(d, pp) ==
    {v \in {d[k][c] : k \in 1 .. Len(d), c \in {1, 2, 4, 5, 6}}
           \cup {pp[k][i] : k \in 1 .. Len(pp), i \in 1 .. (IF pp = <<>> THEN 0 ELSE Len(pp[1]))} :
        Abs(v) % 10 = 5}

\* np.column_stack((data[:,0],data[:,1],pha_pets[:,i],data[:,3],data[:,4],
\* data[:,5],np.arange(0,n))) written with fmt='%f %f %f %f %f %f %d'
SaveTxt(d, pp, i, ups) ==
    [k \in 1 .. Len(d) |->
        <<FormatF(d[k][1], ups), FormatF(d[k][2], ups), FormatF(pp[k][i], ups),
          FormatF(d[k][4], ups), FormatF(d[k][5], ups), FormatF(d[k][6], ups),
          FormatD(k - 1)>>]

\* cell f9a7b336: build the covariance matrix, draw the noise, write N files
WritePerturbed ==
    /\ pc = "data"
    /\ x' = [k \in 1 .. Len(data) |-> KmToM(data[k][1])]
    /\ y' = [k \in 1 .. Len(data) |-> KmToM(data[k][2])]
    /\ pha' = [k \in 1 .. Len(data) |-> data[k][3]]
    /\ rgrid' = PairSqDist(Mesh1(x'), Mesh2(x'), Mesh1(y'), Mesh2(y'))
    /\ vcm' = CovMatrix(maxvar, alpha, beta, rgrid')
    /\ \E outcome \in CholeskyOutcomes(vcm') :
          IF outcome = "LinAlgError"
          THEN /\ pc' = "LinAlgError"
               /\ UNCHANGED <<V, X, pha_pets, written>>
          ELSE /\ pc' = "written"
               /\ V' = Cholesky(vcm')
               /\ X' \in [1 .. Len(data) -> [1 .. N -> Noise]]
               /\ pha_pets' = [k \in 1 .. Len(data) |-> [i \in 1 .. N |-> pha'[k] + X'[k][i]]]
               /\ \E ups \in SUBSET Ties(data, pha_pets') :
                     written' = [i \in 1 .. N |-> SaveTxt(data, pha_pets', i, ups)]
    /\ UNCHANGED <<data, maxvar, alpha, beta, N, E, Einv>>
    /\ UNCHANGED gridVars
    /\ UNCHANGED <<loadVars, profVars, restartVars, otherVars>>

(* ---------------------------- restart loop ---------------------------- *)
\* bestfun=1e30, in units of 1e29
InitialBest == 10

\* the test with <= in place of <
ImprovesOrTies(fun, best) == fun <= best

\* results.fun<bestfun
Improves(fun, best) == fun < best

\* what minimize can return: the penalty reached (units of 1e29: a total
\* squared misfit, below, at and above the initial bestfun) and the
\* parameter vector that reached it
Penalties == {0, 3, 7, 10, 12}

ParamVectors == {<<1>>, <<2>>}

MinimizeResults == {[fun |-> f, x |-> v] : f \in Penalties, v \in ParamVectors}

\* The fault parameters are integers in sixteenths of their unit (degrees,
\* metres), so that the slip sigma 0.75 and a quarter of a sigma are whole.

\* np.random.random_sample(9): nine draws from [0, 1), in sixteenths
Draws == {0, 8, 15}

\* the same draw nine times, or a draw for the top depth above the one for
\* the bottom depth
RandomSamples ==
    {[k \in 1 .. 9 |-> u] : u \in Draws}
        \cup {[k \in 1 .. 9 |-> IF k = 9 THEN 0 ELSE u] : u \in {8, 15}}

\* fpstart - 2*sigma, fpstart + 2*sigma
LowBound(start, sigma) == [k \in 1 .. 9 |-> start[k] - 2 * sigma[k]]

HighBound(start, sigma) == [k \in 1 .. 9 |-> start[k] + 2 * sigma[k]]

\* fpstart + np.multiply(((u*4)-2),fpsigma) for the draws u (sixteenths):
\* (4u/16 - 2) * sigma = (u - 8) * sigma / 4
RandomStart(start, sigma, u) ==
    [k \in 1 .. 9 |-> start[k] + ((u[k] - 8) * sigma[k]) \div 4]

\* if fparams_restart[7] > fparams_restart[8]: swap them (indices from 0)
DepthSwap(fp) ==
    IF fp[8] > fp[9] THEN [fp EXCEPT ![8] = fp[9], ![9] = fp[8]] ELSE fp

\* the cell that sets the start values, the bounds and an example start
StartModel ==
    /\ pc = "configured"
    /\ pc' = "fitted_once"
    /\ fplowb' = LowBound(fpstart, fpsigma)
    /\ fphighb' = HighBound(fpstart, fpsigma)
    /\ \E u \in RandomSamples :
          fparams_restart' = DepthSwap(RandomStart(fpstart, fpsigma, u))
    /\ UNCHANGED <<fpstart, fpsigma, run_i, results, bestfun, bestparams, printed>>
    /\ UNCHANGED gridVars
    /\ UNCHANGED covVars
    /\ UNCHANGED <<loadVars, profVars, writerVars, otherVars>>

\* the last cell of the inversion notebook, before the loop
StartRestarts ==
    /\ pc = "fitted_once"
    /\ pc' = "looping"
    /\ bestfun' = InitialBest
    /\ run_i' = 0
    /\ UNCHANGED <<results, bestparams, printed, fpstart, fpsigma, fplowb, fphighb,
                   fparams_restart>>
    /\ UNCHANGED gridVars
    /\ UNCHANGED covVars
    /\ UNCHANGED <<loadVars, profVars, writerVars, otherVars>>

\* one pass of 'for i in range(100)': draw a random start, swap the depths if
\* needed, minimize from it within fplowb .. fphighb, keep the
\* result if it is better, print the line.  results holds every result
\* returned so far (the notebook's results is the last of them), run_i the
\* number of passes made
RestartRun ==
    /\ pc = "looping"
    /\ run_i < MaxRuns
    /\ \E u \in RandomSamples :
          fparams_restart' = DepthSwap(RandomStart(fpstart, fpsigma, u))
    /\ UNCHANGED <<fpstart, fpsigma, fplowb, fphighb>>
    /\ \E res \in MinimizeResults :
          /\ results' = Append(results, res)
          /\ IF Improves(res.fun, bestfun)
             THEN /\ bestfun' = res.fun
                  /\ bestparams' = res.x
             ELSE UNCHANGED <<bestfun, bestparams>>
          /\ printed' = Append(printed, <<run_i, res.fun, bestfun'>>)
    /\ run_i' = run_i + 1
    /\ pc' = "looping"
    /\ UNCHANGED gridVars
    /\ UNCHANGED covVars
    /\ UNCHANGED <<loadVars, profVars, writerVars, otherVars>>

(* ------------------------ GNSS offset correction ---------------------- *)
\* Dates are whole day numbers, positions whole millimetres.

\* the days the series can cover
Days == 1 .. 5

\* gnss_data.loc[gnss_data['Date']==d, col].values
RECURSIVE ValuesAt(_, _, _, _)
ValuesAt(gd, d, col, k) ==
    IF k > Len(gd) THEN <<>>
    ELSE (IF gd[k].Date = d THEN <<gd[k][col]>> ELSE <<>>) \o ValuesAt(gd, d, col, k + 1)

\* (values at off_date+1 - values at off_date).item(0): the difference of
\* two one-element arrays; with a date missing the difference is empty and
\* item(0) raises IndexError
Offset(gd, d, col) ==
    LET after == ValuesAt(gd, d + 1, col, 1)
        at == ValuesAt(gd, d, col, 1)
    IN  IF Len(after) = 0 \/ Len(at) = 0 THEN [err |-> TRUE, val |-> 0]
        ELSE [err |-> FALSE, val |-> after[1] - at[1]]

\* the index with >= in place of >
PostOffsetOrOn(gd, d) == {k \in 1 .. Len(gd) : gd[k].Date >= d}

\* idx_postoff=gnss_data["Date"]>off_date
PostOffset(gd, d) == {k \in 1 .. Len(gd) : gd[k].Date > d}

\* shift[idx]=shift[idx]+off
AddAt(shift, idx, off) ==
    [k \in 1 .. Len(shift) |-> IF k \in idx THEN shift[k] + off ELSE shift[k]]

\* the cell that creates the three shift arrays: np.zeros(len(gnss_data.index))
ZeroShifts ==
    /\ pc = "detrended"
    /\ pc' = "zeroed"
    /\ e_shift' = [k \in 1 .. Len(gnss_data) |-> 0]
    /\ n_shift' = [k \in 1 .. Len(gnss_data) |-> 0]
    /\ v_shift' = [k \in 1 .. Len(gnss_data) |-> 0]
    /\ applied' = <<>>
    /\ UNCHANGED <<gnss_data, off_date>>
    /\ UNCHANGED gridVars
    /\ UNCHANGED covVars
    /\ UNCHANGED <<loadVars, profVars, writerVars, restartVars, okadaVars,
                   downloadVars>>

\* the offset correction cell, run with the offset date typed into it
CorrectOffset ==
    /\ pc \in {"zeroed", "corrected", "IndexError"}
    /\ Len(applied) < MaxCorrections
    /\ \E d \in Days :
          /\ off_date' = d
          /\ LET e_off == Offset(gnss_data, d, "East")
                 n_off == Offset(gnss_data, d, "North")
                 v_off == Offset(gnss_data, d, "Vertical")
             IN  IF e_off.err
                 THEN /\ pc' = "IndexError"
                      /\ UNCHANGED <<e_shift, n_shift, v_shift, applied>>
                 ELSE /\ pc' = "corrected"
                      /\ e_shift' = AddAt(e_shift, PostOffset(gnss_data, d), e_off.val)
                      /\ n_shift' = AddAt(n_shift, PostOffset(gnss_data, d), n_off.val)
                      /\ v_shift' = AddAt(v_shift, PostOffset(gnss_data, d), v_off.val)
                      /\ applied' = Append(applied, d)
    /\ UNCHANGED gnss_data
    /\ UNCHANGED gridVars
    /\ UNCHANGED covVars
    /\ UNCHANGED <<loadVars, profVars, writerVars, restartVars, okadaVars,
                   downloadVars>>

(* ------------------------ Okada forward model ------------------------- *)
\* Angles are hundredths of a degree. The strikes of the model are those
\* whose sine and cosine are whole multiples of 1/TrigScale: the multiples
\* of 90 degrees and the angles of the 3-4-5 triangle (36.87, 53.13 degrees
\* and their images in the other quadrants).
TrigScale == 5

\* TrigScale * sin(radians(a))
SinD(a) ==
    LET t == a % 36000
    IN  CASE t = 0 -> 0
          [] t = 3687 -> 3
          [] t = 5313 -> 4
          [] t = 9000 -> 5
          [] t = 12687 -> 4
          [] t = 14313 -> 3
          [] t = 18000 -> 0
          [] t = 21687 -> -3
          [] t = 23313 -> -4
          [] t = 27000 -> -5
          [] t = 30687 -> -4
          [] t = 32313 -> -3

\* TrigScale * cos(radians(a))
CosD(a) == SinD(a + 9000)

\* R=np.array([[cos(strike-90), -sin(strike-90)], [sin(strike-90), cos(strike-90)]])
RotationFor(st) ==
    <<<<CosD(st - 9000), -SinD(st - 9000)>>,
      <<SinD(st - 9000), CosD(st - 9000)>>>>

\* the grid of the loop: n = (OkadaN, OkadaN), i outer, j inner
GridPoints == (0 .. OkadaN - 1) \X (0 .. OkadaN - 1)

PointAt(k) == <<k \div OkadaN, k % OkadaN>>

\* the preparation cell: the rotation matrix for the strike
RotationMatrix ==
    /\ pc = "okada_params"
    /\ pc' = "okada_prepped"
    /\ rotR' = RotationFor(strike)
    /\ UNCHANGED <<strike, okada_k, u_at, UX, UY, UZ>>
    /\ UNCHANGED gridVars
    /\ UNCHANGED covVars
    /\ UNCHANGED <<loadVars, profVars, writerVars, restartVars, gnssVars,
                   downloadVars>>

\* the head of the forward model cell: the three output arrays
OkadaGrid ==
    /\ pc = "okada_prepped"
    /\ pc' = "okada_loop"
    /\ okada_k' = 0
    /\ u_at' = [p \in {} |-> <<>>]
    /\ UX' = [p \in GridPoints |-> 0]
    /\ UY' = [p \in GridPoints |-> 0]
    /\ UZ' = [p \in GridPoints |-> 0]
    /\ UNCHANGED <<strike, rotR>>
    /\ UNCHANGED gridVars
    /\ UNCHANGED covVars
    /\ UNCHANGED <<loadVars, profVars, writerVars, restartVars, gnssVars,
                   downloadVars>>

\* the displacements (u[0], u[1], u[2]) dc3dwrapper can return
Displacements == {<<5, 0, 1>>, <<2, -1, 0>>, <<-3, 4, -2>>}

\* UX[i, j] = u[0]*sin(radians(strike))-u[1]*cos(radians(strike))
BackX(u, st) == u[1] * SinD(st) - u[2] * CosD(st)

\* UY[i, j] = u[0]*cos(radians(strike))-u[1]*sin(radians(strike))
BackY(u, st) == u[1] * CosD(st) - u[2] * SinD(st)

\* one pass of the loop body: dc3dwrapper is the library's, its result at
\* the rotated point is any of Displacements with success 0, or a failure
\* that stops the cell at the assert
OkadaPoint ==
    /\ pc = "okada_loop"
    /\ okada_k < OkadaN * OkadaN
    /\ \/ \E u \in Displacements :
             LET p == PointAt(okada_k)
             IN  /\ u_at' = [q \in DOMAIN u_at \cup {p} |-> IF q = p THEN u ELSE u_at[q]]
                 /\ UX' = [UX EXCEPT ![p] = BackX(u, strike)]
                 /\ UY' = [UY EXCEPT ![p] = BackY(u, strike)]
                 /\ UZ' = [UZ EXCEPT ![p] = u[3]]
                 /\ okada_k' = okada_k + 1
                 /\ pc' = "okada_loop"
       \/ /\ pc' = "AssertionError"
          /\ UNCHANGED <<okada_k, u_at, UX, UY, UZ>>
    /\ UNCHANGED <<strike, rotR>>
    /\ UNCHANGED gridVars
    /\ UNCHANGED covVars
    /\ UNCHANGED <<loadVars, profVars, writerVars, restartVars, gnssVars,
                   downloadVars>>

(* ----------------------- authenticated download ----------------------- *)
\* requests.codes.ok
codes_ok == 200

\* Path(url).name: the last part of the path
PathName(u) == u[Len(u)]

\* the bytes of the first k chunks, one after the other
RECURSIVE Chunks(_, _)
Chunks(body, k) ==
    IF k = 0 THEN <<>> ELSE Chunks(body, k - 1) \o body[k]

\* the test with 201 Created passing as well
IsOkOrCreated(r) == r.status_code \in {codes_ok, 201}

\* r.status_code == requests.codes.ok
IsOk(r) == r.status_code = codes_ok

\* f"failure: {r.status_code}, {r.reason}"
FailureLine(r) == <<"failure: ", r.status_code, ", ", r.reason>>

\* open(..., 'wb') and the k chunks written before the file is closed
WriteFile(fs, name, bytes) ==
    [f \in DOMAIN fs \cup {name} |-> IF f = name THEN bytes ELSE fs[f]]

\* what the server can send in an answer
Bodies == {<<>>, <<<<1, 2>>>>, <<<<1>>, <<2, 3>>>>}

StatusLines ==
    {<<200, "OK">>, <<201, "Created">>, <<401, "Unauthorized">>, <<404, "Not Found">>}

Responses ==
    {[status_code |-> sl[1], reason |-> sl[2], body |-> b] : sl \in StatusLines, b \in Bodies}

\* the download cell: requests.get raises when there is no answer; with an
\* answer the file is written chunk by chunk when the status is OK (the
\* stream may break after any chunk), otherwise the failure is printed
Download ==
    /\ pc \in {"url_set", "downloaded", "ConnectionError", "ChunkedEncodingError"}
    /\ requests_made < MaxRequests
    /\ requests_made' = requests_made + 1
    /\ file_name' = PathName(url)
    /\ \/ /\ pc' = "ConnectionError"
          /\ UNCHANGED <<response, files, stdout>>
       \/ \E r \in Responses :
             /\ response' = r
             /\ IF IsOk(r)
                THEN \E k \in 0 .. Len(r.body) :
                        /\ files' = WriteFile(files, PathName(url), Chunks(r.body, k))
                        /\ pc' = IF k = Len(r.body) THEN "downloaded"
                                 ELSE "ChunkedEncodingError"
                        /\ UNCHANGED stdout
                ELSE /\ stdout' = Append(stdout, FailureLine(r))
                     /\ pc' = "downloaded"
                     /\ UNCHANGED files
    /\ UNCHANGED url
    /\ UNCHANGED gridVars
    /\ UNCHANGED covVars
    /\ UNCHANGED <<loadVars, profVars, writerVars, restartVars, gnssVars,
                   okadaVars>>

(* ------------------------------ inputs -------------------------------- *)
\* plane coefficients (offset, x-slope, y-slope) of the input fields
Coefs == {<<0, 0, 0>>, <<1, 0, 0>>, <<1, 2, -1>>}

\* missing-pixel sets: a few pixels missing, or only a few pixels valid
Masks(R, C) ==
    {M \in SUBSET Cells(R, C) :
        \/ Cardinality(M) <= MaxMissing
        \/ Cardinality(Cells(R, C) \ M) <= MaxMissing}

\* a plane p, plus q times the curved term x*(x+y), with the pixels M missing
Field(R, C, p, q, M) ==
    [c \in Cells(R, C) |->
        IF c \in M THEN NaN
        ELSE Num(p[1] + p[2] * c[2] + p[3] * c[1] + q * c[2] * (c[2] + c[1]))]

\* the 5 x 5 field of one value at every pixel
Uniform5x5(v) == Field(5, 5, <<v, 0, 0>>, 0, {})

InitGridRest ==
    /\ pc = "cropped"
    /\ planeparams = NoParams
    /\ flatcropifg = NoGrid
    /\ flatden = 0
    /\ normcount = 0
    /\ autocorr_grid = NoGrid
    /\ acden = 0
    /\ xcent = 0
    /\ ycent = 0
    /\ radial_dist = NoGrid
    /\ rdlen = 0
    /\ rd = <<>>
    /\ acg = <<>>

\* the grid notebook's variables while another notebook runs
InitGridIdle ==
    /\ nrows = 0
    /\ ncols = 0
    /\ cropifg = NoGrid
    /\ planeparams = NoParams
    /\ flatcropifg = NoGrid
    /\ flatden = 0
    /\ normcount = 0
    /\ autocorr_grid = NoGrid
    /\ acden = 0
    /\ xcent = 0
    /\ ycent = 0
    /\ radial_dist = NoGrid
    /\ rdlen = 0
    /\ rd = <<>>
    /\ acg = <<>>

InitCovIdle ==
    /\ data = <<>>
    /\ x = <<>>
    /\ y = <<>>
    /\ maxvar = 0
    /\ alpha = 0
    /\ beta = 0
    /\ rgrid = <<>>
    /\ E = <<>>
    /\ Einv = NoMatrix

\* a value not assigned yet
Unset == [nan |-> TRUE, num |-> 0, den |-> 0]

NoSolution == [x |-> <<>>, success |-> FALSE]

InitLoadIdle ==
    /\ ifg = NoGrid
    /\ cor = NoGrid
    /\ msk = NoGrid
    /\ use_water_mask = FALSE
    /\ cor_thresh = 0
    /\ ymin = 0
    /\ ymax = 0
    /\ xmin = 0
    /\ xmax = 0

InitProfIdle ==
    /\ maxacg = Unset
    /\ maxdist = 0
    /\ rdtrunc = <<>>
    /\ acgtrunc = <<>>
    /\ rdbin = <<>>
    /\ cvdav = <<>>
    /\ exp_solution = NoSolution
    /\ expcos_solution = NoSolution
    /\ fit_a = Unset
    /\ fit_b = 0
    /\ fit_c = 0
    /\ exp_graph = <<>>
    /\ expcos_graph = <<>>

InitWriterIdle ==
    /\ N = 0
    /\ pha = <<>>
    /\ vcm = <<>>
    /\ V = <<>>
    /\ X = <<>>
    /\ pha_pets = <<>>
    /\ written = <<>>

InitRestartIdle ==
    /\ run_i = 0
    /\ results = <<>>
    /\ bestfun = 0
    /\ bestparams = <<>>
    /\ printed = <<>>
    /\ fpstart = <<>>
    /\ fpsigma = <<>>
    /\ fplowb = <<>>
    /\ fphighb = <<>>
    /\ fparams_restart = <<>>

InitGnssIdle ==
    /\ gnss_data = <<>>
    /\ off_date = 0
    /\ e_shift = <<>>
    /\ n_shift = <<>>
    /\ v_shift = <<>>
    /\ applied = <<>>

InitOkadaIdle ==
    /\ strike = 0
    /\ rotR = <<>>
    /\ okada_k = 0
    /\ u_at = <<>>
    /\ UX = <<>>
    /\ UY = <<>>
    /\ UZ = <<>>

\* no response yet
NoResponse == [status_code |-> 0, reason |-> "", body |-> <<>>]

InitDownloadIdle ==
    /\ url = <<>>
    /\ file_name = ""
    /\ response = NoResponse
    /\ files = <<>>
    /\ stdout = <<>>
    /\ requests_made = 0

InitOtherIdle ==
    /\ InitGnssIdle
    /\ InitOkadaIdle
    /\ InitDownloadIdle

InitRestIdle ==
    /\ InitOtherIdle
    /\ InitLoadIdle
    /\ InitProfIdle
    /\ InitWriterIdle
    /\ InitRestartIdle

Init ==
    /\ \/ \E R \in 1 .. MaxRows, C \in 1 .. MaxCols, p \in Coefs, q \in 0 .. 1 :
             \E M \in Masks(R, C) :
                /\ nrows = R
                /\ ncols = C
                /\ cropifg = Field(R, C, p, q, M)
       \/ \E v \in 0 .. 2 :
             /\ nrows = 5
             /\ ncols = 5
             /\ cropifg = Uniform5x5(v)
    /\ InitGridRest
    /\ InitCovIdle
    /\ InitRestIdle

Next ==
    \/ Flatten
    \/ Autocorr

Spec == Init /\ [][Next]_vars

\* wider grids with the valid pixels in the top-left 2 x 2 block
ShapeMasks(R, C) ==
    LET block == {c \in Cells(R, C) : c[1] < 2 /\ c[2] < 2}
    IN  {Cells(R, C) \ miss : miss \in {W \in SUBSET block : Cardinality(block \ W) <= 1}}

InitShape ==
    /\ \E R \in 1 .. MaxShapeRows, C \in 1 .. MaxShapeCols, p \in Coefs, q \in 0 .. 1 :
          \E M \in ShapeMasks(R, C) :
             /\ nrows = R
             /\ ncols = C
             /\ cropifg = Field(R, C, p, q, M)
    /\ InitGridRest
    /\ InitCovIdle
    /\ InitRestIdle

SpecShape == InitShape /\ [][Next]_vars

\* point files of 1 .. MaxPts rows; two rows may hold the same point
Coords == {0, 1}

PointFiles == UNION {[1 .. n -> Coords \X Coords] : n \in 1 .. MaxPts}

\* cell c53e1241: the model parameters are typed in by the user
MaxVars == {0, 1, 2}

Alphas == {0, 1, 3}

Betas == {-1, 0, 1}

InitCov ==
    /\ pc = "inputs"
    /\ data \in PointFiles
    /\ maxvar \in MaxVars
    /\ alpha \in Alphas
    /\ beta \in Betas
    /\ x = <<>>
    /\ y = <<>>
    /\ rgrid = <<>>
    /\ E = <<>>
    /\ Einv = NoMatrix
    /\ nrows = 0
    /\ ncols = 0
    /\ cropifg = NoGrid
    /\ planeparams = NoParams
    /\ flatcropifg = NoGrid
    /\ flatden = 0
    /\ normcount = 0
    /\ autocorr_grid = NoGrid
    /\ acden = 0
    /\ xcent = 0
    /\ ycent = 0
    /\ radial_dist = NoGrid
    /\ rdlen = 0
    /\ rd = <<>>
    /\ acg = <<>>
    /\ InitRestIdle

NextCov ==
    \/ LoadData
    \/ BuildCov

SpecCov == InitCov /\ [][NextCov]_vars


\* grids large enough for a profile of several rows; at most one pixel missing
InitProfile ==
    /\ \E R \in 2 .. MaxProfRows, C \in 2 .. MaxProfCols, p \in Coefs, q \in 0 .. 1 :
          \E M \in {{}, {<<0, 0>>}} :
             /\ nrows = R
             /\ ncols = C
             /\ cropifg = Field(R, C, p, q, M)
    /\ InitGridRest
    /\ InitCovIdle
    /\ InitRestIdle

NextProfile ==
    \/ Flatten
    \/ Autocorr
    \/ ProfileFit

SpecProfile == InitProfile /\ [][NextProfile]_vars


\* The profile cell as a function of the vectors rd and acg it reads: any two
\* equally long vectors of distances and finite values.
RdValues == {0, 900, 8100, 14400}

AcgValues == {Num(0), Num(2)}

InitBins ==
    /\ pc = "autocorr"
    /\ \E n \in 1 .. MaxSamples :
          /\ rd \in [1 .. n -> RdValues]
          /\ acg \in [1 .. n -> AcgValues]
    /\ \E m \in {4, 5} :
          /\ xcent = m
          /\ ycent = m
    /\ nrows = 0
    /\ ncols = 0
    /\ cropifg = NoGrid
    /\ planeparams = NoParams
    /\ flatcropifg = NoGrid
    /\ flatden = 1
    /\ normcount = 1
    /\ autocorr_grid = NoGrid
    /\ acden = 1
    /\ radial_dist = NoGrid
    /\ rdlen = Len(rd)
    /\ InitCovIdle
    /\ InitRestIdle

NextBins == ProfileFit

SpecBins == InitBins /\ [][NextBins]_vars


\* the rasters read from the files: one shape, every pixel of the
\* interferogram a different finite value
RasterShapes == {<<2, 3>>}

RawIfg(R, C) == [cell \in Cells(R, C) |-> Num(1 + cell[1] * C + cell[2])]

\* correlation (hundredths) below, at and above the threshold; water mask 0 / 1
PixelKinds == {<<24, 1>>, <<25, 1>>, <<26, 1>>, <<24, 0>>, <<25, 0>>, <<26, 0>>}

\* crop bounds: the full scene as the cell's comment says, the defaults, a window
YBounds == {<<0, -1>>, <<0, 3000>>}

XBounds == {<<0, -1>>, <<0, 3>>, <<1, 2>>}

InitLoad ==
    /\ pc = "loaded"
    /\ \E sh \in RasterShapes :
          /\ ifg = RawIfg(sh[1], sh[2])
          /\ \E kinds \in [Cells(sh[1], sh[2]) -> PixelKinds] :
                /\ Cardinality({cell \in Cells(sh[1], sh[2]) : kinds[cell] # <<26, 1>>}) <= MaxFlagged
                /\ cor = [cell \in Cells(sh[1], sh[2]) |-> kinds[cell][1]]
                /\ msk = [cell \in Cells(sh[1], sh[2]) |-> kinds[cell][2]]
    /\ use_water_mask \in BOOLEAN
    /\ cor_thresh = CorThresh
    /\ \E yb \in YBounds :
          /\ ymin = yb[1]
          /\ ymax = yb[2]
    /\ \E xb \in XBounds :
          /\ xmin = xb[1]
          /\ xmax = xb[2]
    /\ nrows = 0
    /\ ncols = 0
    /\ cropifg = NoGrid
    /\ planeparams = NoParams
    /\ flatcropifg = NoGrid
    /\ flatden = 0
    /\ normcount = 0
    /\ autocorr_grid = NoGrid
    /\ acden = 0
    /\ xcent = 0
    /\ ycent = 0
    /\ radial_dist = NoGrid
    /\ rdlen = 0
    /\ rd = <<>>
    /\ acg = <<>>
    /\ InitCovIdle
    /\ InitProfIdle
    /\ InitWriterIdle
    /\ InitRestartIdle
    /\ InitOtherIdle

NextLoad == MaskCrop

SpecLoad == InitLoad /\ [][NextLoad]_vars


\* rows of the point file (units of 1e-7): x, y in kilometres, the value,
\* three auxiliary columns; with and without a seventh decimal
PointRows ==
    {<<0, 0, 120, 1000000, 2000000, 3000000>>,
     <<10000004, 20000000, -37, 5, 0, 9999996>>,
     <<20000000, 10000003, 8, 0, 7000000, 0>>}

WriterFiles == UNION {[1 .. n -> PointRows] : n \in 1 .. MaxWriterPts}

WriterMaxVars == {1, 2}

WriterAlphas == {1, 3}

WriterBetas == {0, 1}

\* N, the number of perturbed data sets required
FileCounts == {1, 2}

InitWriter ==
    /\ pc = "data"
    /\ data \in WriterFiles
    /\ maxvar \in WriterMaxVars
    /\ alpha \in WriterAlphas
    /\ beta \in WriterBetas
    /\ N \in FileCounts
    /\ x = <<>>
    /\ y = <<>>
    /\ rgrid = <<>>
    /\ E = <<>>
    /\ Einv = NoMatrix
    /\ pha = <<>>
    /\ vcm = <<>>
    /\ V = <<>>
    /\ X = <<>>
    /\ pha_pets = <<>>
    /\ written = <<>>
    /\ InitGridIdle
    /\ InitLoadIdle
    /\ InitProfIdle
    /\ InitRestartIdle
    /\ InitOtherIdle

NextWriter == WritePerturbed

SpecWriter == InitWriter /\ [][NextWriter]_vars


\* start value and sigma as typed in the notebook, in sixteenths:
\* strike, dip, rake, slip, xs, ys, as_length
TypedStart == <<960, 1440, 16, 32, 8000000, 67840000, 560000>>

TypedSigma == <<160, 240, 320, 12, 80000, 80000, 80000>>

\* top_depth and bottom_depth [start, sigma]: the notebook's values, and a
\* bottom edge started 3 km higher
TopDepths == {<<64000, 32000>>}

BottomDepths == {<<192000, 80000>>, <<144000, 80000>>}

InitRestart ==
    /\ pc = "configured"
    /\ InitGridIdle
    /\ InitCovIdle
    /\ InitLoadIdle
    /\ InitProfIdle
    /\ InitWriterIdle
    /\ run_i = 0
    /\ results = <<>>
    /\ bestfun = 0
    /\ bestparams = <<>>
    /\ printed = <<>>
    /\ \E td \in TopDepths, bd \in BottomDepths :
          /\ fpstart = TypedStart \o <<td[1], bd[1]>>
          /\ fpsigma = TypedSigma \o <<td[2], bd[2]>>
    /\ fplowb = <<>>
    /\ fphighb = <<>>
    /\ fparams_restart = <<>>
    /\ InitOtherIdle

NextRestart ==
    \/ StartModel
    \/ StartRestarts
    \/ RestartRun

SpecRestart == InitRestart /\ [][NextRestart]_vars


\* the positions (East, North, Vertical) an epoch can have
Positions == {<<0, 0, 0>>, <<2, -1, 1>>, <<5, 3, -4>>}

\* the epochs of the file have increasing dates; days may be missing
InitGnss ==
    /\ pc = "detrended"
    /\ \E n \in 3 .. MaxEpochs :
       \E dates \in [1 .. n -> Days], pos \in [1 .. n -> Positions] :
          /\ \A k \in 1 .. n - 1 : dates[k] < dates[k + 1]
          /\ gnss_data = [k \in 1 .. n |->
                [Date |-> dates[k], East |-> pos[k][1], North |-> pos[k][2],
                 Vertical |-> pos[k][3]]]
    /\ off_date = 0
    /\ e_shift = <<>>
    /\ n_shift = <<>>
    /\ v_shift = <<>>
    /\ applied = <<>>
    /\ InitGridIdle
    /\ InitCovIdle
    /\ InitLoadIdle
    /\ InitProfIdle
    /\ InitWriterIdle
    /\ InitRestartIdle
    /\ InitOkadaIdle
    /\ InitDownloadIdle

NextGnss ==
    \/ ZeroShifts
    \/ CorrectOffset

SpecGnss == InitGnss /\ [][NextGnss]_vars


\* the strikes typed into the parameter cell
Strikes == {0, 3687, 9000, 18000, 27000}

InitOkada ==
    /\ pc = "okada_params"
    /\ strike \in Strikes
    /\ rotR = <<>>
    /\ okada_k = 0
    /\ u_at = <<>>
    /\ UX = <<>>
    /\ UY = <<>>
    /\ UZ = <<>>
    /\ InitGridIdle
    /\ InitCovIdle
    /\ InitLoadIdle
    /\ InitProfIdle
    /\ InitWriterIdle
    /\ InitRestartIdle
    /\ InitGnssIdle
    /\ InitDownloadIdle

NextOkada ==
    \/ RotationMatrix
    \/ OkadaGrid
    \/ OkadaPoint

SpecOkada == InitOkada /\ [][NextOkada]_vars


\* the addresses of the two notebooks
Urls ==
    {<<"gage-data.earthscope.org", "path", "to", "the", "file", "you", "want.yeah">>,
     <<"gage-data.earthscope.org", "archive", "gnss", "products", "velocity",
       "cwu.final_nam14.vel">>}

\* the working directory before the cell runs: another file, and maybe an
\* earlier copy of the file to download
InitDownload ==
    /\ pc = "url_set"
    /\ url \in Urls
    /\ file_name = ""
    /\ response = NoResponse
    /\ \/ files = [f \in {"notes.txt"} |-> <<7>>]
       \/ files = [f \in {"notes.txt", PathName(url)} |-> IF f = "notes.txt" THEN <<7>> ELSE <<9, 9>>]
    /\ stdout = <<>>
    /\ requests_made = 0
    /\ InitGridIdle
    /\ InitCovIdle
    /\ InitLoadIdle
    /\ InitProfIdle
    /\ InitWriterIdle
    /\ InitRestartIdle
    /\ InitGnssIdle
    /\ InitOkadaIdle

NextDownload ==
    \/ Download

SpecDownload == InitDownload /\ [][NextDownload]_vars


(* ====================== properties of the plane fit =================== *)
AllCells == Cells(nrows, ncols)

Valid == NotNaN(cropifg)

\* the valid pixels of f lie exactly on the plane p
ExactPlane(f, p) ==
    \A c \in NotNaN(f) : f[c].num = p[1] + p[2] * c[2] + p[3] * c[1]

NonCollinear(S) ==
    \E a \in S, b \in S, c \in S :
        (b[2] - a[2]) * (c[1] - a[1]) - (b[1] - a[1]) * (c[2] - a[2]) # 0

PlaneCands == (-2 .. 2) \X (-2 .. 2) \X (-2 .. 2)

\* C1: when the valid pixels hold exactly z = p0 + p1*column + p2*row and
\* at least three of them are not collinear, the coefficients solved from the
\* normal equations are (p0, p1, p2) and the detrended field is 0 at every
\* valid pixel.
C1_ExactPlaneRecovered ==
    pc = "flattened" =>
        \A p \in PlaneCands :
            (NonCollinear(Valid) /\ ExactPlane(cropifg, p)) =>
                /\ \A i \in 1 .. 3 : planeparams.num[i] = p[i] * planeparams.den
                /\ planeparams.den # 0
                /\ \A c \in Valid : flatcropifg[c] = Num(0)

C1_Witness ==
    /\ pc = "flattened"
    /\ NonCollinear(Valid)
    /\ Valid # AllCells
    /\ ExactPlane(cropifg, <<1, 2, -1>>)
    /\ planeparams = [num |-> <<1, 2, -1>>, den |-> 1]

\* the cell that holds the zero-lag value after the circular shift
Pts == 1 .. Len(data)

\* C2: for every point set, repeated coordinates included, the squared
\* distance matrix is symmetric with a zero diagonal, E is symmetric, and
\* every diagonal entry of E is maxvar (maxvar * 1.0 * 1.0 in fixed point).
C2_CovarianceSymmetric ==
    pc = "inverted" =>
        /\ DOMAIN rgrid = Pts
        /\ DOMAIN E = Pts
        /\ \A i \in Pts, j \in Pts :
              /\ rgrid[i][j] = rgrid[j][i]
              /\ E[i][j] = E[j][i]
        /\ \A i \in Pts :
              /\ rgrid[i][i] = 0
              /\ E[i][i] = maxvar * FxOne * FxOne

C2_Witness ==
    /\ pc = "inverted"
    /\ maxvar > 0
    /\ \E i \in Pts, j \in Pts :
          /\ i # j
          /\ data[i] = data[j]
    /\ \E i \in Pts, j \in Pts :
          /\ rgrid[i][j] > 0
          /\ E[i][j] # E[i][i]

\* C3: a pseudoinverse is always returned and E * Einv * E = E, also when E
\* is singular because points coincide (Einv = Einv.num / Einv.den).
C3_PinvReproducesE ==
    pc = "inverted" =>
        /\ Einv # NoMatrix
        /\ Einv.den > 0
        /\ MatMul(E, MatMul(Einv.num, E)) = MatScale(Einv.den, E)

C3_Witness ==
    /\ pc = "inverted"
    /\ maxvar > 0
    /\ \E i \in Pts, j \in Pts :
          /\ i # j
          /\ data[i] = data[j]
    /\ Leverrier(E, Len(E)).a = 0
    /\ \E i \in Pts, j \in Pts : Einv.num[i][j] # 0

ZeroLagCell(R, C) ==
    CHOOSE c \in Cells(R, C) :
        FftShift([l \in Cells(R, C) |-> l], R, C)[c] = <<0, 0>>

\* C4: on the 5 x 5 field of 1.0 with no missing pixel the fit is offset 1,
\* slopes 0, the detrended field is 0 at every pixel, and the normalised
\* autocovariance at zero lag is 0.
C4_UniformFieldScenario ==
    (pc = "autocorr" /\ nrows = 5 /\ ncols = 5 /\ cropifg = Uniform5x5(1)) =>
        /\ planeparams = [num |-> <<1, 0, 0>>, den |-> 1]
        /\ \A c \in AllCells : flatcropifg[c] = Num(0)
        /\ autocorr_grid[ZeroLagCell(5, 5)] = Num(0)

\* C5: right after the plane is removed, a pixel is missing in the detrended
\* field iff it was missing in the input, and every other pixel holds the
\* input value minus the fitted plane at its (column, row).
C5_MaskPreserved ==
    pc = "flattened" =>
        \A c \in AllCells :
            /\ IsNaN(flatcropifg[c]) <=> IsNaN(cropifg[c])
            /\ ~IsNaN(cropifg[c]) =>
                  /\ flatden = planeparams.den
                  /\ flatcropifg[c].num =
                        planeparams.den * cropifg[c].num
                        - (planeparams.num[1] + planeparams.num[2] * c[2]
                           + planeparams.num[3] * c[1])

C5_Witness ==
    /\ pc = "flattened"
    /\ Valid # AllCells
    /\ \E c \in Valid : flatcropifg[c].num # 0
    /\ \E c \in AllCells \ Valid : IsNaN(flatcropifg[c])

\* C6: with fewer than 3 valid pixels the plane fit fails: no coefficients
\* and no detrended field are produced.
C6_TooFewValidFails ==
    (pc # "cropped" /\ Cardinality(Valid) < 3) =>
        /\ pc = "LinAlgError"
        /\ planeparams = NoParams
        /\ flatcropifg = NoGrid

\* C7: the autocovariance is divided by the number of pixels that were valid
\* before the zero fill, valid pixels whose detrended value is 0 included.
C7_NormalisedByValidCount ==
    pc = "autocorr" => normcount = Cardinality(Valid)

(* ================== properties of the grid geometry =================== *)
\* the lag held by each cell of the shifted grid
LagOf(R, C) == FftShift([l \in Cells(R, C) |-> l], R, C)

\* the cell holding the opposite lag (lags are modulo the grid size)
Mirror(c, R, C) ==
    CHOOSE d \in Cells(R, C) :
        LagOf(R, C)[d] = <<(R - LagOf(R, C)[c][1]) % R, (C - LagOf(R, C)[c][2]) % C>>

\* position of a cell in the row-major flattened vector (from 1)
FlatIndex(c, C) == c[1] * C + c[2] + 1

Retained(c) == FlatIndex(c, ncols) <= Len(acg)

\* C8: the zero-lag value lies at the grid-centre cell and the distance grid
\* is measured from that cell: distance 0 there, and pixel size times the
\* Euclidean index offset from it everywhere else.
C8_DistanceFromZeroLag ==
    pc = "autocorr" =>
        LET z == ZeroLagCell(nrows, ncols)
        IN  /\ z = <<nrows \div 2, ncols \div 2>>
            /\ radial_dist[z] = 0
            /\ \A c \in AllCells :
                  radial_dist[c] =
                      pixsize * pixsize
                      * ((c[1] - z[1]) * (c[1] - z[1]) + (c[2] - z[2]) * (c[2] - z[2]))

\* C9: the cut loses no independent lag: every cell or its point mirror about
\* the zero-lag cell is retained, and the zero-lag sample is retained.
C9_NoLagLost ==
    pc = "autocorr" =>
        /\ Retained(ZeroLagCell(nrows, ncols))
        /\ \A c \in AllCells : Retained(c) \/ Retained(Mirror(c, nrows, ncols))

\* C10: both vectors are cut at the same index rows + ceil(rows*cols/2),
\* capped at rows*cols: equal length, entry k of each is cell k of its grid,
\* and more than half of the rows*cols samples are kept.
C10_CutAligned ==
    pc = "autocorr" =>
        LET n == nrows * ncols
        IN  /\ 2 * (rdlen - nrows) >= n
            /\ 2 * (rdlen - nrows) <= n + 1
            /\ Len(rd) = (IF rdlen < n THEN rdlen ELSE n)
            /\ Len(acg) = Len(rd)
            /\ \A k \in 1 .. Len(rd) :
                  /\ rd[k] = radial_dist[<<(k - 1) \div ncols, (k - 1) % ncols>>]
                  /\ acg[k] = autocorr_grid[<<(k - 1) \div ncols, (k - 1) % ncols>>]
            /\ 2 * Len(rd) > n

C10_Witness ==
    /\ pc = "autocorr"
    /\ rdlen < nrows * ncols
    /\ Len(rd) = rdlen
    /\ \E k \in 1 .. Len(acg) : ~IsNaN(acg[k]) /\ acg[k].num # 0

\* C16: the autocorrelation cell leaves the detrended field it reads as it
\* was: afterwards the field is still missing at exactly the pixels that are
\* missing in the crop.
C16_DetrendedFieldUntouched ==
    pc = "autocorr" =>
        \A cell \in AllCells : IsNaN(flatcropifg[cell]) <=> IsNaN(cropifg[cell])

(* ================= properties of the covariance profile =============== *)
\* two profile values are the same number (or both NaN)
SameValue(u, v) ==
    IF u.nan \/ v.nan THEN u.nan /\ v.nan ELSE u.num * v.den = v.num * u.den

\* the cut samples whose distance lies in (lo, hi] metres (every distance
\* is above a negative lo) and below the shorter centre distance
InRing(lo, hi) ==
    LET m == IF xcent < ycent THEN xcent ELSE ycent
    IN  {k \in 1 .. Len(rd) :
            /\ lo < 0 \/ rd[k] > lo * lo
            /\ rd[k] <= hi * hi
            /\ rd[k] < (m * pixsize) * (m * pixsize)}

RingSum(K) == SumF([k \in K |-> acg[k].num], K)

\* C11: every bin is 2 * pixsize wide, a sample at or beyond
\* min(xcent, ycent) * pixsize is in no bin mean (row r is the mean of exactly
\* the samples in its ring that lie below that distance), and the profile has
\* at most ceil(maxdist / (2 * pixsize)) rows.
C11_BinsTruncated ==
    pc = "fitted" =>
        /\ Len(rdtrunc) = Cardinality(InRing(-1, maxdist))
        /\ \A k \in 1 .. Len(rdtrunc) : rdtrunc[k] < maxdist * maxdist
        /\ \A r \in 1 .. Len(cvdav) :
              LET K == InRing((r - 1) * 2 * pixsize, r * 2 * pixsize)
              IN  IF K = {} \/ \E k \in K : IsNaN(acg[k])
                  THEN cvdav[r].mean.nan
                  ELSE SameValue(cvdav[r].mean, Rat(RingSum(K), Cardinality(K)))
        /\ Len(cvdav) * 2 * pixsize < maxdist + 2 * pixsize

C11_Witness ==
    /\ pc = "fitted"
    /\ Len(cvdav) >= 2
    /\ \E k \in 1 .. Len(rd) : rd[k] = maxdist * maxdist
    /\ \E r \in 1 .. Len(cvdav) : ~cvdav[r].mean.nan /\ cvdav[r].mean.num # 0

\* C13: the profile's distances start at 0 and go up by the bin width, row
\* by row (row b, counted from 0, has distance b * w), so they are
\* non-negative and strictly increasing, and every row was written by the
\* averaging loop.
C13_ProfileDistances ==
    pc = "fitted" =>
        /\ cvdav[1].dist = 0
        /\ \A r \in 1 .. Len(cvdav) : cvdav[r].dist = (r - 1) * 2 * pixsize
        /\ \A r \in 1 .. Len(cvdav) - 1 : cvdav[r].dist < cvdav[r + 1].dist
        /\ \A r \in 1 .. Len(cvdav) :
              LET K == {k \in 1 .. Len(rdbin) : rdbin[k] = r}
              IN  IF K = {} \/ \E k \in K : IsNaN(acgtrunc[k])
                  THEN cvdav[r].mean.nan
                  ELSE cvdav[r].mean.den = Cardinality(K)

C13_Witness ==
    /\ pc = "fitted"
    /\ Len(cvdav) >= 2
    /\ cvdav[2].dist = 60

\* C12: a profile row whose bin received no sample holds NaN: not a finite
\* value, not the 0 the array was created with.
C12_EmptyBinIsNaN ==
    pc = "fitted" =>
        \A r \in 1 .. Len(cvdav) :
            (\A k \in 1 .. Len(rdbin) : rdbin[k] # r) =>
                /\ cvdav[r].mean = RNaN
                /\ cvdav[r].mean # Rat(0, 1)

C12_Witness ==
    /\ pc = "fitted"
    /\ Len(cvdav) = 2
    /\ \A k \in 1 .. Len(rdbin) : rdbin[k] # 1
    /\ cvdav[1].mean.nan
    /\ ~cvdav[2].mean.nan
    /\ cvdav[2].mean.num # 0

\* the zero-lag autocovariance
ZeroLagValue == autocorr_grid[<<nrows \div 2, ncols \div 2>>]

\* C14: both fitted curves pass through a = cvdav[0] at distance 0, whatever
\* the fitted parameters, and a is the peak covariance: the zero-lag
\* autocovariance, which is also the maximum maxacg.
C14_CurveAnchoredAtPeak ==
    pc = "fitted" =>
        /\ fit_a = cvdav[1].mean
        /\ SameValue(ExpGraph(fit_a, SolutionX(exp_solution, 1), 0), fit_a)
        /\ SameValue(ExpCosGraph(fit_a, fit_b, fit_c, 0), fit_a)
        /\ SameValue(fit_a, [nan |-> ZeroLagValue.nan, num |-> ZeroLagValue.num, den |-> 1])
        /\ SameValue(fit_a, maxacg)

\* C15: the fitted parameters are whatever minimize returned, converged or
\* not: they are read from the result and used for the curves, and the cell
\* ends normally.
C15_ConvergenceNotChecked ==
    (pc \notin {"cropped", "flattened", "autocorr"} /\ cvdav # <<>>) =>
        /\ pc = "fitted"
        /\ exp_solution \in ExpSolutions
        /\ expcos_solution \in ExpCosSolutions
        /\ fit_b = expcos_solution.x[1]
        /\ fit_c = expcos_solution.x[2]
        /\ \A k \in 1 .. Len(rd) :
              /\ exp_graph[k] = ExpGraph(fit_a, exp_solution.x[1], rd[k])
              /\ expcos_graph[k] = ExpCosGraph(fit_a, expcos_solution.x[1], expcos_solution.x[2], rd[k])

C15_Witness ==
    /\ pc = "fitted"
    /\ ~exp_solution.success
    /\ ~expcos_solution.success
    /\ exp_solution.x[1] # 0
    /\ fit_b # 0
    /\ ~fit_a.nan
    /\ fit_a.num # 0

(* ==================== properties of the raster loader ================= *)
\* C19: with the crop minima 0 and the maxima -1 (the full scene, as the
\* cell's comment instructs; the cell has replaced ymax = -1 by the row
\* count) the crop is the whole masked interferogram, last column included.
C19_FullSceneCrop ==
    (pc = "cropped" /\ ifg # NoGrid /\ ymin = 0 /\ xmin = 0 /\ xmax = -1 /\ ymax = nrows) =>
        /\ DOMAIN cropifg = DOMAIN ifg
        /\ cropifg = ifg

\* C20: after masking, a pixel is missing exactly when the water mask is in
\* use and its mask value is below 1, or its correlation is strictly below
\* the threshold; every other pixel keeps its value.
C20_MaskingRule ==
    (pc = "cropped" /\ ifg # NoGrid) =>
        \A cell \in DOMAIN ifg :
            /\ IsNaN(ifg[cell]) <=>
                  \/ use_water_mask /\ msk[cell] < 1
                  \/ cor[cell] < cor_thresh
            /\ ~IsNaN(ifg[cell]) =>
                  ifg[cell] = RawIfg(RasterYSize(ifg), RasterXSize(ifg))[cell]

C20_Witness ==
    /\ pc = "cropped"
    /\ ifg # NoGrid
    /\ \E cell \in DOMAIN ifg : cor[cell] = cor_thresh /\ ~IsNaN(ifg[cell])
    /\ \E cell \in DOMAIN ifg : cor[cell] < cor_thresh /\ IsNaN(ifg[cell])
    /\ \E cell \in DOMAIN ifg : cor[cell] > cor_thresh /\ msk[cell] < 1 /\ IsNaN(ifg[cell])

(* ================= properties of the perturbed data writer ============ *)
\* the value v (1e-7) and the printed value p (1e-6) are the same number
Printed(p, v) == p * 10 = v

\* p is v rounded to six decimals
Rounded(p, v) == Abs(p * 10 - v) <= 5

\* C17 as stated: every file keeps the input layout and order; columns 1-2
\* are the input x, y in kilometres, columns 4-6 the input's auxiliary
\* columns unchanged, column 7 the index k.
C17_ColumnsUnchanged ==
    pc = "written" =>
        /\ Len(written) = N
        /\ \A i \in 1 .. Len(written) :
              /\ Len(written[i]) = Len(data)
              /\ \A k \in 1 .. Len(data) :
                    /\ \A c \in {1, 2, 4, 5, 6} : Printed(written[i][k][c], data[k][c])
                    /\ written[i][k][7] = k - 1

\* C17, amended: every file keeps the input layout and order; columns 1-2
\* and 4-6 are the input's columns rounded to six decimals by the output
\* format (the input itself when it has no seventh decimal, and never the
\* metre coordinates), column 3 is the perturbed value rounded likewise,
\* column 7 is the index k.
C17_ColumnsRounded ==
    pc = "written" =>
        /\ Len(written) = N
        /\ \A i \in 1 .. Len(written) :
              /\ Len(written[i]) = Len(data)
              /\ \A k \in 1 .. Len(data) :
                    /\ \A c \in {1, 2, 4, 5, 6} :
                          /\ Rounded(written[i][k][c], data[k][c])
                          /\ data[k][c] % 10 = 0 => Printed(written[i][k][c], data[k][c])
                    /\ Rounded(written[i][k][3], data[k][3] + X[k][i])
                    /\ written[i][k][7] = k - 1
                    /\ data[k][1] # 0 => written[i][k][1] \div 1000000 # x[k]

C17_Witness ==
    /\ pc = "written"
    /\ Len(written) = 2
    /\ Len(data) = 2
    /\ \E k \in 1 .. 2 : \E c \in {1, 2, 4, 5, 6} :
          /\ ~Printed(written[1][k][c], data[k][c])
          /\ data[k][c] % 10 > 5
    /\ \E k \in 1 .. 2 : data[k][1] # 0

(* ==================== properties of the restart loop ================== *)
\* the least of the initial bestfun and the penalties of the first k runs
RECURSIVE BestOf(_, _)
BestOf(rs, k) ==
    IF k = 0 THEN InitialBest
    ELSE LET rest == BestOf(rs, k - 1)
         IN  IF rs[k].fun < rest THEN rs[k].fun ELSE rest

\* C18: after every pass k the printed bestfun is the least of 1e30 and the
\* penalties of runs 0..k, it never increases from one pass to the next, and
\* whenever some run was below 1e30 bestparams is the vector returned by the
\* earliest run that attained bestfun.
C18_KeepsBestRun ==
    pc = "looping" =>
        /\ Len(printed) = run_i
        /\ Len(results) = run_i
        /\ bestfun = BestOf(results, run_i)
        /\ \A k \in 1 .. run_i :
              /\ printed[k] = <<k - 1, results[k].fun, BestOf(results, k)>>
              /\ k > 1 => printed[k][3] <= printed[k - 1][3]
        /\ (\E k \in 1 .. run_i : results[k].fun < InitialBest) =>
              \E k \in 1 .. run_i :
                  /\ results[k].fun = bestfun
                  /\ \A m \in 1 .. k - 1 : results[m].fun # bestfun
                  /\ bestparams = results[k].x

C18_Witness ==
    /\ pc = "looping"
    /\ run_i = 3
    /\ results[1].fun >= InitialBest
    /\ results[2].fun = bestfun
    /\ results[3].fun = bestfun
    /\ results[2].x # results[3].x
    /\ bestfun < InitialBest

(* ================ properties of the profile rows (bins) =============== *)
\* the cut samples of row r (row b = r - 1): distance in ((r-1)*w, r*w] and
\* below maxdist
RowSamples(r) ==
    {k \in 1 .. Len(rd) :
        /\ rd[k] > ((r - 1) * w) * ((r - 1) * w)
        /\ rd[k] <= (r * w) * (r * w)
        /\ rd[k] < maxdist * maxdist}

\* C26: profile row b, labelled b*w, is the mean of exactly the retained
\* samples with b*w < d <= (b+1)*w and d < maxdist; each such sample is
\* counted in exactly one row, and a sample at distance 0 is counted in none.
C26_RowIsMeanOfItsRing ==
    pc = "fitted" =>
        /\ \A r \in 1 .. Len(cvdav) :
              /\ cvdav[r].dist = (r - 1) * w
              /\ IF RowSamples(r) = {} \/ \E k \in RowSamples(r) : IsNaN(acg[k])
                 THEN cvdav[r].mean.nan
                 ELSE SameValue(cvdav[r].mean,
                                Rat(RingSum(RowSamples(r)), Cardinality(RowSamples(r))))
        /\ \A k \in 1 .. Len(rdtrunc) :
              IF rdtrunc[k] = 0 THEN rdbin[k] \notin 1 .. Len(cvdav)
              ELSE /\ rdbin[k] \in 1 .. Len(cvdav)
                   /\ rdtrunc[k] > ((rdbin[k] - 1) * w) * ((rdbin[k] - 1) * w)
                   /\ rdtrunc[k] <= (rdbin[k] * w) * (rdbin[k] * w)
        /\ \A k \in 1 .. Len(rd) :
              Cardinality({r \in 1 .. Len(cvdav) : k \in RowSamples(r)}) =
                  IF rd[k] > 0 /\ rd[k] < maxdist * maxdist THEN 1 ELSE 0

C26_Witness ==
    /\ pc = "fitted"
    /\ Len(cvdav) >= 2
    /\ \E k \in 1 .. Len(rdtrunc) : rdtrunc[k] = 0
    /\ \E k \in 1 .. Len(rdtrunc) : rdbin[k] = 2 /\ rdtrunc[k] = (2 * w) * (2 * w)
    /\ \E r \in 1 .. Len(cvdav) : ~cvdav[r].mean.nan /\ cvdav[r].mean.num # 0

(* ============== properties of the autocovariance grid ================= *)
\* C27: the shifted autocovariance grid is point-symmetric about the
\* zero-lag cell: the cell holding lag (k, l) and the cell holding lag
\* (-k, -l), lags modulo the grid size, hold the same value (both missing
\* when the normalising count is 0).
C27_PointSymmetric ==
    pc \in {"autocorr", "fitted"} =>
        \A c \in AllCells :
            autocorr_grid[c] = autocorr_grid[Mirror(c, nrows, ncols)]

C27_Witness ==
    /\ pc = "autocorr"
    /\ \E c \in AllCells :
          /\ Mirror(c, nrows, ncols) # c
          /\ ~IsNaN(autocorr_grid[c])
          /\ autocorr_grid[c].num # 0
          /\ \E d \in AllCells :
                /\ d \notin {c, Mirror(c, nrows, ncols), ZeroLagCell(nrows, ncols)}
                /\ autocorr_grid[d] # autocorr_grid[c]

\* the sum of squares of the zero-filled detrended field (numerators)
SumOfSquares ==
    SumF([c \in AllCells |-> ZeroFill(flatcropifg)[c].num * ZeroFill(flatcropifg)[c].num],
         AllCells)

\* C28: when some detrended pixel is not 0, maxacg - the maximum over the
\* retained samples - is the zero-lag autocovariance, the sum of squares of
\* the zero-filled detrended field over the normalising count, and is not
\* negative.
C28_MaxIsZeroLag ==
    (pc \in {"fitted", "ValueError", "IndexError"}
        /\ \E c \in AllCells : ~IsNaN(flatcropifg[c]) /\ flatcropifg[c].num # 0) =>
        /\ ~maxacg.nan
        /\ ~ZeroLagValue.nan
        /\ maxacg.num = ZeroLagValue.num
        /\ ZeroLagValue.num = SumOfSquares
        /\ maxacg.num >= 0

(* ================ properties of the starting models =================== *)
\* C21: every random starting model handed to the optimizer, after the depth
\* swap, has each of its 9 components within [start - 2*sigma,
\* start + 2*sigma], the optimizer's bounds, and its bottom depth is not
\* smaller than its top depth.
C21_StartWithinBounds ==
    (pc \in {"fitted_once", "looping"} /\ fparams_restart # <<>>) =>
        /\ \A k \in 1 .. 9 :
              /\ fparams_restart[k] >= fpstart[k] - 2 * fpsigma[k]
              /\ fparams_restart[k] <= fpstart[k] + 2 * fpsigma[k]
              /\ fparams_restart[k] >= fplowb[k]
              /\ fparams_restart[k] <= fphighb[k]
        /\ fparams_restart[9] >= fparams_restart[8]

(* ================ properties of the colouring factor ================== *)
\* sum over k of V[k][i] * V[k][j], without the common factor
\* 1 / sqrt(rad_i * rad_j)
GramNum(i, j) == SumTo([k \in 1 .. Len(V) |-> V[k][i].num * V[k][j].num], Len(V))

\* the radicand of column j of V
ColRad(j) == V[j][j].rad

\* C22: the factor V that colours the white noise satisfies V'V = vcm, so a
\* noise vector z V has covariance vcm.  (V'V)[i][j] is
\* GramNum(i, j) / sqrt(ColRad(i) * ColRad(j)).
C22_FactorColoursNoise ==
    (pc = "written" /\ \A j \in 1 .. Len(V) : ColRad(j) > 0) =>
        \A i \in 1 .. Len(V), j \in 1 .. Len(V) :
            /\ GramNum(i, j) * GramNum(i, j) = vcm[i][j] * vcm[i][j] * ColRad(i) * ColRad(j)
            /\ (GramNum(i, j) >= 0) <=> (vcm[i][j] >= 0)

(* ================ properties of the offset correction ================= *)
\* the sum of the offsets estimated at the first n corrected dates that lie
\* strictly before the day
RECURSIVE OffsetsBefore(_, _, _)
OffsetsBefore(day, col, n) ==
    IF n = 0 THEN 0
    ELSE OffsetsBefore(day, col, n - 1)
         + (IF applied[n] < day THEN Offset(gnss_data, applied[n], col).val ELSE 0)

\* C23: after the correction has been applied for the dates d1..dk without
\* resetting the shift arrays, the shift at every epoch is the sum of the
\* offsets estimated at exactly those dates strictly earlier than the epoch,
\* and an epoch on or before the earliest date keeps shift 0.
C23_ShiftsAccumulate ==
    pc \in {"zeroed", "corrected", "IndexError"} =>
        \A k \in 1 .. Len(gnss_data) :
            /\ e_shift[k] = OffsetsBefore(gnss_data[k].Date, "East", Len(applied))
            /\ n_shift[k] = OffsetsBefore(gnss_data[k].Date, "North", Len(applied))
            /\ v_shift[k] = OffsetsBefore(gnss_data[k].Date, "Vertical", Len(applied))
            /\ (\A n \in 1 .. Len(applied) : gnss_data[k].Date <= applied[n]) =>
                  /\ e_shift[k] = 0
                  /\ n_shift[k] = 0
                  /\ v_shift[k] = 0

C23_Witness ==
    /\ pc = "corrected"
    /\ Len(applied) = 2
    /\ applied[1] # applied[2]
    /\ \A n \in 1 .. 2 : Offset(gnss_data, applied[n], "East").val # 0
    /\ \E k \in 1 .. Len(gnss_data) :
          /\ gnss_data[k].Date > applied[1]
          /\ gnss_data[k].Date > applied[2]
          /\ e_shift[k] # 0
    /\ \E k \in 1 .. Len(gnss_data) :
          /\ gnss_data[k].Date > applied[1]
          /\ gnss_data[k].Date <= applied[2]
    /\ \E k \in 1 .. Len(gnss_data) : gnss_data[k].Date = applied[1] /\ e_shift[k] = 0

(* ================= properties of the Okada forward model ============== *)
\* R' * (u0, u1), numerators over TrigScale
InverseRotated(u) ==
    <<rotR[1][1] * u[1] + rotR[2][1] * u[2],
      rotR[1][2] * u[1] + rotR[2][2] * u[2]>>

\* C24: at every grid point the loop has done, (UX, UY) is the inverse of
\* the rotation R applied to the displacement (u0, u1) dc3dwrapper returned
\* there, and the horizontal magnitude is preserved:
\* UX^2 + UY^2 = u0^2 + u1^2.
C24_RotatedBack ==
    pc \in {"okada_loop", "AssertionError"} =>
        \A p \in DOMAIN u_at :
            /\ <<UX[p], UY[p]>> = InverseRotated(u_at[p])
            /\ UX[p] * UX[p] + UY[p] * UY[p]
                  = TrigScale * TrigScale
                      * (u_at[p][1] * u_at[p][1] + u_at[p][2] * u_at[p][2])

(* ================ properties of the authenticated download ============ *)
\* a run of the download cell that got an answer from the server
Answered == requests_made' = requests_made + 1 /\ pc' # "ConnectionError"

\* C25: a run of the download cell creates or overwrites the target file
\* only when the response status is OK; with any other status every file
\* is left as it was, the failure line with the status and the reason is
\* printed, and the cell ends without raising.
C25_FileOnlyWhenOk ==
    [][Answered =>
          /\ files' # files => response'.status_code = codes_ok
          /\ \A f \in DOMAIN files' : f # PathName(url) => f \in DOMAIN files /\ files'[f] = files[f]
          /\ response'.status_code # codes_ok =>
                /\ files' = files
                /\ stdout' = Append(stdout, <<"failure: ", response'.status_code, ", ",
                                              response'.reason>>)
                /\ pc' = "downloaded"]_vars

C25_Witness ==
    /\ pc = "downloaded"
    /\ requests_made = 2
    /\ response.status_code = 201
    /\ response.body # <<>>
    /\ file_name \in DOMAIN files
    /\ files[file_name] = <<9, 9>>
    /\ Len(stdout) = 2

====
